---- MODULE Spec2Model ----
(***************************************************************************)
(* A model of the Plinko PIR reference server (plinko-reference): the      *)
(* database snapshot (database.py), the pseudorandom set (prset.py), the   *)
(* helpers (utils.py), the query engine (plinko_core.py) and the HTTP      *)
(* handlers (handlers.py, plinko_server.py).                               *)
(*                                                                         *)
(* Conventions.                                                            *)
(*  - A byte string is a sequence of numbers in 0..255; a text string is a *)
(*    sequence of one-character strings.                                   *)
(*  - A Python call that may raise is an operator returning a record whose *)
(*    field exc is "none" or the name of the exception class; the message  *)
(*    of the exception is the pair (fmt, args) of its f-string.            *)
(*  - Wall-clock readings (server_time_nanos) are left out of the results. *)
(*  - Numbers stay below 2^31: the files and PRF outputs that are drawn    *)
(*    have their four most significant bytes zero.                         *)
(***************************************************************************)
EXTENDS Integers, Sequences, FiniteSets, TLC

VARIABLES
    file,        \* the database file on disk: "absent" or its bytes
    data,        \* PlinkoDatabase.data
    size,        \* PlinkoDatabase.size
    db_size,     \* PlinkoPIRServer.db_size
    chunk_size,  \* PlinkoPIRServer.chunk_size
    set_size,    \* PlinkoPIRServer.set_size
    pc,          \* where the process is: "start", "loaded", "serving", "exited"
    resp,        \* the last call or request and what it returned
    seen,        \* the <<key, value>> pairs full_set returned so far, in order
    waited,      \* the wait of the last load: its timeout, existence checks and sleeps
    threads,     \* the call each thread of the transport runs, with the call's locals
    config,      \* the start of the process: environment, flags and what came of them
    prset_obj,   \* a PRSet object that is called directly, as the tests call it
    iprf_obj,    \* an IPRF object that is called directly, as the tests call it
    call,        \* the last direct call of a library object and what it returned
    evals        \* the <<x, m, value>> of the prf_eval_mod calls of prset_obj, in order

vars == <<file, data, size, db_size, chunk_size, set_size, pc, resp, seen, waited,
          threads, config, prset_obj, iprf_obj, call, evals>>

----------------------------------------------------------------------------
(* Bounds of the model. *)

\* small database files hold 0..MaxRecords records
MaxRecords == 3
\* index lists of set_parity requests have 0..MaxList elements
MaxList == 2
\* full_set is called until it has returned MaxHistory values
MaxHistory == 2
\* a PRSet called directly is expanded to 0..MaxSetSize indices
MaxSetSize == 3
\* with chunks of 1..MaxChunk entries, and of the 100 entries of the tests
MaxChunk == 3
\* the largest domain of an IPRF object
MaxDomain == 6
\* the largest range of an IPRF object
MaxRange == 4
\* the longest wait for a database file, in seconds
MaxWait == 2
\* the number of threads that serve requests at the same time
NumThreads == 2

----------------------------------------------------------------------------
(* Program constants. *)

\* PlinkoDatabase.entry_size
entry_size == 8
\* the divisor of the chunk size, db_size // 1024
ChunkDivisor == 1024
\* the length of a PRF key
KeyBytes == 16
\* the length of an AES block
BlockBytes == 16

HTTP_OK == 200
HTTP_BAD_REQUEST == 400
HTTP_INTERNAL_ERROR == 500
\* the default of PlinkoConfig.database_wait_timeout, in seconds
database_wait_timeout == 60
\* the default of PlinkoConfig.port
DefaultPort == 8080
\* the largest port _validate accepts
MaxPort == 65535

----------------------------------------------------------------------------
(* Integers and bytes. *)

Max(a, b) == IF a >= b THEN a ELSE b

MinOf(S) == CHOOSE a \in S : \A b \in S : a <= b

\* Python's a ^ b on non-negative integers
RECURSIVE Xor(_, _)
Xor(a, b) ==
    IF a = 0 THEN b
    ELSE IF b = 0 THEN a
    ELSE (((a % 2) + (b % 2)) % 2) + (2 * Xor(a \div 2, b \div 2))

\* n copies of the sequence unit, one after the other
Rep(unit, n) == [p \in 1..(n * Len(unit)) |-> unit[((p - 1) % Len(unit)) + 1]]

\* struct.pack('>Q', value): 8 bytes, most significant first
RECURSIVE PackBE(_, _)
PackBE(value, width) ==
    IF width = 0 THEN <<>>
    ELSE Append(PackBE(value \div 256, width - 1), value % 256)

uint64_to_bytes(value) == PackBE(value, 8)

\* struct.unpack('>Q', bytes)[0]: the bytes read most significant first
RECURSIVE UnpackBE(_, _)
UnpackBE(bytes, upto) ==
    IF upto = 0 THEN 0
    ELSE (UnpackBE(bytes, upto - 1) * 256) + bytes[upto]

unpack_Q(bytes) == UnpackBE(bytes, Len(bytes))

----------------------------------------------------------------------------
(* Exceptions and Python values. *)

NoExc == [exc |-> "none", fmt |-> "", args |-> <<>>]

Raise(kind, fmt, args) == [exc |-> kind, fmt |-> fmt, args |-> args]

\* the code points of the characters the model writes strings with
Ord ==
    [c \in {"0", "1", "7", "9", "a", "b", "f", "A", "B", "F", "g", " "} |->
        CASE c = "0" -> 48 [] c = "1" -> 49 [] c = "7" -> 55 [] c = "9" -> 57
          [] c = "a" -> 97 [] c = "b" -> 98 [] c = "f" -> 102
          [] c = "A" -> 65 [] c = "B" -> 66 [] c = "F" -> 70
          [] c = "g" -> 103 [] c = " " -> 32]

\* a value as Python sees it: its type t, its number v (an int) and its
\* elements s (the code points of a str, the bytes of a bytes object, the
\* items of a list)
PyInt(v) == [t |-> "int", v |-> v, s |-> <<>>]
PyStr(chars) == [t |-> "str", v |-> 0, s |-> [j \in 1..Len(chars) |-> Ord[chars[j]]]]
PyBytes(bytes) == [t |-> "bytes", v |-> 0, s |-> bytes]
PyList(items) == [t |-> "list", v |-> 0, s |-> items]
PyNone == [t |-> "NoneType", v |-> 0, s |-> <<>>]

----------------------------------------------------------------------------
(* utils.py *)

\* validate_index with the upper bound compared by >, so that max_index passes
validate_index_inclusive(index, max_index) ==
    IF index.t # "int"
    THEN Raise("ValueError", "Index must be integer, got {type}", <<>>)
    ELSE IF index.v < 0
    THEN Raise("ValueError", "Index cannot be negative: {index}", <<index.v>>)
    ELSE IF index.v > max_index
    THEN Raise("ValueError", "Index {index} out of bounds [0, {max_index})",
               <<index.v, max_index>>)
    ELSE NoExc

validate_index(index, max_index) ==
    IF index.t # "int"
    THEN Raise("ValueError", "Index must be integer, got {type}", <<>>)
    ELSE IF index.v < 0
    THEN Raise("ValueError", "Index cannot be negative: {index}", <<index.v>>)
    ELSE IF index.v >= max_index
    THEN Raise("ValueError", "Index {index} out of bounds [0, {max_index})",
               <<index.v, max_index>>)
    ELSE NoExc

validate_prf_key(key_data) ==
    IF key_data.t # "bytes"
    THEN Raise("ValueError", "PRF key must be bytes, got {type}", <<>>)
    ELSE IF Len(key_data.s) # KeyBytes
    THEN Raise("ValueError", "PRF key must be 16 bytes, got {len}", <<Len(key_data.s)>>)
    ELSE NoExc

\* result = 0; for value in values: result ^= value.  ^ is associative, so
\* the fold over values[lo..hi] is taken as a balanced tree: its depth is
\* logarithmic in the length of the list.
RECURSIVE xor_range(_, _, _)
xor_range(values, lo, hi) ==
    IF lo > hi THEN 0
    ELSE IF lo = hi THEN Xor(0, values[lo])
    ELSE LET mid == (lo + hi) \div 2
         IN  Xor(xor_range(values, lo, mid), xor_range(values, mid + 1, hi))

\* compute_xor with result = value in the place of result ^= value
compute_xor_assigning(values) == IF Len(values) = 0 THEN 0 ELSE values[Len(values)]

compute_xor(values) == xor_range(values, 1, Len(values))

----------------------------------------------------------------------------
(* prset.py *)

\* AES-128 is the library's, not the repository's: a deterministic function
\* of the key and the block. The model puts in its place a function whose
\* output depends on every key byte (through KeySchedule) and on the block.
RECURSIVE KeySchedule(_, _)
KeySchedule(key, upto) ==
    IF upto = 0 THEN 0
    ELSE KeySchedule(key, upto - 1) + (upto * key[upto])

BlockWord(sched, x) ==
    LET t == (((sched + 1) * 7919) + ((x + 1) * 104729)) % 46337
    IN  ((t * t) + (t \div 3)) % 46337

aes_encrypt(sched, block) ==
    LET w == BlockWord(sched, unpack_Q(block))
    IN  uint64_to_bytes(w) \o uint64_to_bytes((w * 7) % 46337)

\* PrfKey128.__init__ with key bytes given
PrfKey128(key_bytes) ==
    IF Len(key_bytes) # KeyBytes
    THEN Raise("ValueError", "PRF key must be 16 bytes, got {len}", <<Len(key_bytes)>>)
    ELSE NoExc

\* PRSet.__init__: the key and the encryptor made from it
PRSet(key_bytes) == [key |-> key_bytes, encryptor |-> KeySchedule(key_bytes, Len(key_bytes))]

\* prf_eval_mod with an encryptor that keeps state from one full set query to
\* the next: the block it encrypts moves on with every query answered
prf_eval_mod_stateful(prset, x, m) ==
    IF m = 0 THEN 0
    ELSE LET input_block == Rep(<<0>>, BlockBytes - 8) \o uint64_to_bytes(x + Len(seen))
             output_block == aes_encrypt(prset.encryptor, input_block)
             value == unpack_Q(SubSeq(output_block, 1, 8))
         IN  value % m

\* prf_eval_mod without if m == 0: value % 0 raises ZeroDivisionError
prf_eval_mod_unguarded(prset, x, m) ==
    LET input_block == Rep(<<0>>, BlockBytes - 8) \o uint64_to_bytes(x)
        output_block == aes_encrypt(prset.encryptor, input_block)
        value == unpack_Q(SubSeq(output_block, 1, 8))
    IN  IF m = 0 THEN [exc |-> "ZeroDivisionError", value |-> 0, updates |-> 1,
                       divided |-> TRUE]
        ELSE [exc |-> "none", value |-> value % m, updates |-> 1, divided |-> TRUE]

\* PRSet.prf_eval_mod with what it does on the way: the blocks it passes to
\* encryptor.update and whether it evaluates value % m
prf_eval_mod_steps(prset, x, m) ==
    IF m = 0 THEN [exc |-> "none", value |-> 0, updates |-> 0, divided |-> FALSE]
    ELSE LET input_block == Rep(<<0>>, BlockBytes - 8) \o uint64_to_bytes(x)
             output_block == aes_encrypt(prset.encryptor, input_block)
             value == unpack_Q(SubSeq(output_block, 1, 8))
         IN  [exc |-> "none", value |-> value % m, updates |-> 1, divided |-> TRUE]

\* the value PRSet.prf_eval_mod returns
prf_eval_mod(prset, x, m) == prf_eval_mod_steps(prset, x, m).value

\* expand taking its offsets modulo chunk_size + 1
expand_wide(prset, setSize, chunkSize) ==
    [j \in 1..setSize |->
        ((j - 1) * chunkSize) + prf_eval_mod(prset, j - 1, chunkSize + 1)]

\* expand counting its chunks from 1
expand_from_one(prset, setSize, chunkSize) ==
    [j \in 1..setSize |->
        (j * chunkSize) + prf_eval_mod(prset, j - 1, chunkSize)]

\* for i in range(set_size): indices.append(i * chunk_size + offset)
expand(prset, setSize, chunkSize) ==
    [j \in 1..setSize |->
        ((j - 1) * chunkSize) + prf_eval_mod(prset, j - 1, chunkSize)]

----------------------------------------------------------------------------
(* database.py *)

\* os.path.exists(db_path) when the load has gone on for elapsed seconds: the
\* file of the path comes to exist arrival seconds after the load begins
exists_at(f, arrival, elapsed) == f.exists /\ arrival <= elapsed

Waited(e, checks, sleeps) ==
    [exc |-> e.exc, fmt |-> e.fmt, args |-> e.args, checks |-> checks, sleeps |-> sleeps]

\* the loop of _wait_for_database from the round that begins after elapsed
\* sleeps of a second each
RECURSIVE poll(_, _, _, _)
poll(f, timeout, arrival, elapsed) ==
    IF exists_at(f, arrival, elapsed)
    THEN Waited(NoExc, elapsed + 1, elapsed)
    ELSE IF elapsed >= timeout
    THEN Waited(Raise("DatabaseError", "Timeout waiting for database file at {db_path}", <<>>),
                elapsed + 1, elapsed)
    ELSE poll(f, timeout, arrival, elapsed + 1)

\* the wait that goes on polling when the timeout is 0, up to MaxWait seconds
wait_for_database_indefinitely(f, timeout, arrival) ==
    poll(f, IF timeout <= 0 THEN MaxWait ELSE timeout, arrival, 0)

\* _wait_for_database(timeout): the exception it raises, the number of its
\* os.path.exists calls and the number of its time.sleep(1) calls
wait_for_database(f, timeout, arrival) ==
    IF timeout <= 0
    THEN IF ~exists_at(f, arrival, 0)
         THEN Waited(Raise("DatabaseError", "Database file {db_path} not found", <<>>), 1, 0)
         ELSE Waited(NoExc, 1, 0)
    ELSE poll(f, timeout, arrival, 0)

Loaded(e, w, n, entries) ==
    [exc |-> e.exc, fmt |-> e.fmt, args |-> e.args, size |-> n, data |-> entries,
     checks |-> w.checks, sleeps |-> w.sleeps]

\* the load that takes the whole records of the file and drops the rest
load_truncating(f, oldSize, oldData, timeout, arrival) ==
    LET w == wait_for_database(f, timeout, arrival)
    IN  IF w.exc # "none" THEN Loaded(w, w, oldSize, oldData)
        ELSE LET n == Len(f.bytes) \div entry_size
             IN  Loaded(NoExc, w, n,
                        [i \in 1..n |->
                            unpack_Q(SubSeq(f.bytes, ((i - 1) * entry_size) + 1,
                                            ((i - 1) * entry_size) + entry_size))])

\* the load that sets size and empties data before it tests the length
load_assigning_first(f, oldSize, oldData, timeout, arrival) ==
    LET w == wait_for_database(f, timeout, arrival)
    IN  IF w.exc # "none" THEN Loaded(w, w, oldSize, oldData)
        ELSE LET n == Len(f.bytes) \div entry_size
             IN  IF Len(f.bytes) % entry_size # 0
                 THEN Loaded(Raise("DatabaseError",
                                   "Failed to load database: Database file size {len} is not a multiple of entry size {entry_size}",
                                   <<Len(f.bytes), entry_size>>),
                             w, n, <<>>)
                 ELSE Loaded(NoExc, w, n,
                             [i \in 1..n |->
                                 unpack_Q(SubSeq(f.bytes, ((i - 1) * entry_size) + 1,
                                                 ((i - 1) * entry_size) + entry_size))])

\* load(timeout) of a database whose size and data were oldSize and oldData
load(f, oldSize, oldData, timeout, arrival) ==
    LET w == wait_for_database(f, timeout, arrival)
    IN  IF w.exc # "none" THEN Loaded(w, w, oldSize, oldData)
        ELSE LET binary_data == f.bytes
             IN  IF Len(binary_data) % entry_size # 0
                 THEN Loaded(Raise("DatabaseError",
                                   "Failed to load database: Database file size {len} is not a multiple of entry size {entry_size}",
                                   <<Len(binary_data), entry_size>>),
                             w, oldSize, oldData)
                 ELSE LET n == Len(binary_data) \div entry_size
                      IN  Loaded(NoExc, w, n,
                                 [i \in 1..n |->
                                     unpack_Q(SubSeq(binary_data,
                                                     ((i - 1) * entry_size) + 1,
                                                     ((i - 1) * entry_size) + entry_size))])

\* get_entry reading data[index - 1]: Python takes data[-1] for the last entry
get_entry_previous(index) ==
    IF index < 0 \/ index >= size
    THEN [exc |-> "IndexError", fmt |-> "Database index {index} out of bounds [0, {size})",
          args |-> <<index, size>>, value |-> 0]
    ELSE [exc |-> "none", fmt |-> "", args |-> <<>>,
          value |-> data[(((index - 1) + size) % size) + 1]]

\* PlinkoDatabase.get_entry; data[index] of Python is data[index + 1] here
get_entry(index) ==
    IF index < 0 \/ index >= size
    THEN [exc |-> "IndexError", fmt |-> "Database index {index} out of bounds [0, {size})",
          args |-> <<index, size>>, value |-> 0]
    ELSE [exc |-> "none", fmt |-> "", args |-> <<>>, value |-> data[index + 1]]

get_size == size

----------------------------------------------------------------------------
(* plinko_core.py: PlinkoPIRServer *)

\* what a call returned or raised, with the database entries it asked for
\* (reads), the number of PRSet expansions it made and the lines it logged
Returned(value, reads, expands) ==
    [exc |-> "none", fmt |-> "", args |-> <<>>, returned |-> TRUE, value |-> value,
     reads |-> reads, expands |-> expands, logs |-> <<>>]

\* except Exception as e: logger.error(f"<what> failed: {e}"); raise
Reraised(e, what, reads, expands) ==
    [exc |-> e.exc, fmt |-> e.fmt, args |-> e.args, returned |-> FALSE, value |-> 0,
     reads |-> reads, expands |-> expands,
     logs |-> <<[level |-> "ERROR", text |-> what, fmt |-> e.fmt, args |-> e.args]>>]

\* the first exception a loop over results[1..] meets, NoExc if none raises
FirstRaised(results) ==
    LET bad == {j \in DOMAIN results : results[j].exc # "none"}
    IN  IF bad = {} THEN [at |-> Len(results) + 1, e |-> NoExc]
        ELSE [at |-> MinOf(bad), e |-> results[MinOf(bad)]]

\* a set size that counts the last, incomplete chunk as a chunk
set_size_of_ceiling(n) ==
    Max(1, (n + (Max(1, n \div ChunkDivisor) - 1)) \div Max(1, n \div ChunkDivisor))

\* the parameters __init__ derives from the database size
chunk_size_of(n) == Max(1, n \div ChunkDivisor)
set_size_of(n) == Max(1, n \div chunk_size_of(n))

health_check ==
    [status |-> "healthy", database_loaded |-> (db_size > 0), database_size |-> db_size,
     chunk_size |-> chunk_size, set_size |-> set_size]

plaintext_query(index) ==
    LET v == validate_index(index, db_size)
    IN  IF v.exc # "none" THEN Reraised(v, "Plaintext query failed: {e}", <<>>, 0)
        ELSE LET g == get_entry(index.v)
             IN  IF g.exc # "none"
                 THEN Reraised(g, "Plaintext query failed: {e}", <<index.v>>, 0)
                 ELSE Returned(g.value, <<index.v>>, 0)

\* the validation loop leaving after its first index
validate_all_first(indices) ==
    FirstRaised([j \in 1..(IF Len(indices) = 0 THEN 0 ELSE 1) |->
                    validate_index(indices[j], db_size)])

\* for idx in indices: validate_index(idx, self.db_size)
validate_all(indices) ==
    FirstRaised([j \in 1..Len(indices) |-> validate_index(indices[j], db_size)])

\* [self.database.get_entry(idx) for idx in indices]
read_all(indices) ==
    FirstRaised([j \in 1..Len(indices) |-> get_entry(indices[j].v)])

entry_values(indices) == [j \in 1..Len(indices) |-> get_entry(indices[j].v).value]

index_values(indices) == [j \in 1..Len(indices) |-> indices[j].v]

\* full_set_query expanding the set with set_size and chunk_size exchanged
full_set_query_exchanged(prf_key) ==
    LET v == validate_prf_key(prf_key)
    IN  IF v.exc # "none" THEN Reraised(v, "Full set query failed: {e}", <<>>, 0)
        ELSE LET prset == PRSet(prf_key.s)
                 expanded == expand(prset, chunk_size, set_size)
                 indices == [j \in 1..Len(expanded) |-> PyInt(expanded[j])]
                 w == validate_all(indices)
             IN  IF w.e.exc # "none"
                 THEN Reraised(w.e, "Full set query failed: {e}", <<>>, 1)
                 ELSE LET g == read_all(indices)
                      IN  IF g.e.exc # "none"
                          THEN Reraised(g.e, "Full set query failed: {e}",
                                        SubSeq(index_values(indices), 1, g.at), 1)
                          ELSE Returned(compute_xor(entry_values(indices)),
                                        index_values(indices), 1)

\* full_set_query expanding the set before it looks at the length of the key
full_set_query_late(prf_key) ==
    LET prset == PRSet(prf_key.s)
        expanded == expand(prset, set_size, chunk_size)
        indices == [j \in 1..Len(expanded) |-> PyInt(expanded[j])]
        v == validate_prf_key(prf_key)
        w == validate_all(indices)
    IN  IF v.exc # "none" THEN Reraised(v, "Full set query failed: {e}", <<>>, 1)
        ELSE IF w.e.exc # "none"
        THEN Reraised(w.e, "Full set query failed: {e}", <<>>, 1)
        ELSE LET g == read_all(indices)
             IN  IF g.e.exc # "none"
                 THEN Reraised(g.e, "Full set query failed: {e}",
                               SubSeq(index_values(indices), 1, g.at), 1)
                 ELSE Returned(compute_xor(entry_values(indices)),
                               index_values(indices), 1)

full_set_query(prf_key) ==
    LET v == validate_prf_key(prf_key)
    IN  IF v.exc # "none" THEN Reraised(v, "Full set query failed: {e}", <<>>, 0)
        ELSE LET key == PrfKey128(prf_key.s)
                 prset == PRSet(prf_key.s)
                 expanded == expand(prset, set_size, chunk_size)
                 indices == [j \in 1..Len(expanded) |-> PyInt(expanded[j])]
                 w == validate_all(indices)
             IN  IF key.exc # "none"
                 THEN Reraised(key, "Full set query failed: {e}", <<>>, 0)
                 ELSE IF w.e.exc # "none"
                 THEN Reraised(w.e, "Full set query failed: {e}", <<>>, 1)
                 ELSE LET g == read_all(indices)
                      IN  IF g.e.exc # "none"
                          THEN Reraised(g.e, "Full set query failed: {e}",
                                        SubSeq(index_values(indices), 1, g.at), 1)
                          ELSE Returned(compute_xor(entry_values(indices)),
                                        index_values(indices), 1)

\* set_parity_query without its test of the empty list
set_parity_query_unguarded(indices) ==
    LET w == validate_all(indices)
    IN  IF w.e.exc # "none"
        THEN Reraised(w.e, "Set parity query failed: {e}", <<>>, 0)
        ELSE LET g == read_all(indices)
             IN  IF g.e.exc # "none"
                 THEN Reraised(g.e, "Set parity query failed: {e}",
                               SubSeq(index_values(indices), 1, g.at), 0)
                 ELSE Returned(compute_xor(entry_values(indices)),
                               index_values(indices), 0)

set_parity_query(indices) ==
    IF Len(indices) = 0
    THEN Reraised(Raise("ValueError", "Indices list cannot be empty", <<>>),
                  "Set parity query failed: {e}", <<>>, 0)
    ELSE LET w == validate_all(indices)
         IN  IF w.e.exc # "none"
             THEN Reraised(w.e, "Set parity query failed: {e}", <<>>, 0)
             ELSE LET g == read_all(indices)
                  IN  IF g.e.exc # "none"
                      THEN Reraised(g.e, "Set parity query failed: {e}",
                                    SubSeq(index_values(indices), 1, g.at), 0)
                      ELSE Returned(compute_xor(entry_values(indices)),
                                    index_values(indices), 0)

----------------------------------------------------------------------------
(* bytes.fromhex of the Python library, as CPython computes it. *)

IsSpace(c) == c \in {32, 9, 10, 11, 12, 13}

\* the value of a hexadecimal digit of either case, 16 for any other character
DigitValue(c) ==
    IF c >= 48 /\ c <= 57 THEN c - 48
    ELSE IF c >= 97 /\ c <= 102 THEN c - 87
    ELSE IF c >= 65 /\ c <= 70 THEN c - 55
    ELSE 16

\* whitespace is skipped before a pair of digits, never inside one
RECURSIVE fromhex_from(_, _, _)
fromhex_from(str, p, buf) ==
    IF p > Len(str) THEN [exc |-> "none", bytes |-> buf]
    ELSE IF IsSpace(str[p]) THEN fromhex_from(str, p + 1, buf)
    ELSE IF DigitValue(str[p]) >= 16 THEN [exc |-> "ValueError", bytes |-> <<>>]
    ELSE IF p + 1 > Len(str) THEN [exc |-> "ValueError", bytes |-> <<>>]
    ELSE IF DigitValue(str[p + 1]) >= 16 THEN [exc |-> "ValueError", bytes |-> <<>>]
    ELSE fromhex_from(str, p + 2,
                      Append(buf, (DigitValue(str[p]) * 16) + DigitValue(str[p + 1])))

fromhex(str) == fromhex_from(str, 1, <<>>)

----------------------------------------------------------------------------
(* handlers.py *)

\* a request: whether it carries JSON, whether the JSON is null, whether the
\* field the handler wants is in it, and the field's value
Request(kind, val) == [kind |-> kind, val |-> val]

validate_json_request(req) ==
    IF req.kind = "not_json"
    THEN Raise("ValueError", "Request must contain JSON data", <<>>)
    ELSE IF req.kind = "null"
    THEN Raise("ValueError", "Invalid JSON data", <<>>)
    ELSE IF req.kind = "missing"
    THEN Raise("ValueError", "Missing required fields: {missing_fields}", <<>>)
    ELSE NoExc

\* return result, 200
Ok200(r) ==
    [status |-> HTTP_OK, exc |-> "none", fmt |-> "", args |-> <<>>, returned |-> TRUE,
     value |-> r.value, reads |-> r.reads, expands |-> r.expands, logs |-> r.logs]

\* except ValueError as e: log_security_event(event, {"error": str(e), ...});
\* return {"error": str(e)}, 400
BadRequest400(e, event, reads, expands, logs) ==
    [status |-> HTTP_BAD_REQUEST, exc |-> "none", fmt |-> e.fmt, args |-> e.args,
     returned |-> FALSE, value |-> 0, reads |-> reads, expands |-> expands,
     logs |-> Append(logs, [level |-> "WARNING", text |-> event, fmt |-> e.fmt,
                            args |-> e.args])]

\* except Exception as e: logger.error(f"<what> error: {e}");
\* return {"error": "Internal server error"}, 500
Internal500(e, what, reads, expands, logs) ==
    [status |-> HTTP_INTERNAL_ERROR, exc |-> "none", fmt |-> "Internal server error",
     args |-> <<>>, returned |-> FALSE, value |-> 0, reads |-> reads,
     expands |-> expands,
     logs |-> Append(logs, [level |-> "ERROR", text |-> what, fmt |-> e.fmt,
                            args |-> e.args])]

\* the except clauses of a handler, for what the engine raised
Caught(r, event, what) ==
    IF r.exc = "none" THEN Ok200(r)
    ELSE IF r.exc = "ValueError" THEN BadRequest400(r, event, r.reads, r.expands, r.logs)
    ELSE Internal500(r, what, r.reads, r.expands, r.logs)

plaintext_query_handler(req) ==
    LET event == "SECURITY: Invalid plaintext query"
        j == validate_json_request(req)
    IN  IF j.exc # "none" THEN BadRequest400(j, event, <<>>, 0, <<>>)
        ELSE IF req.val.t # "int"
        THEN BadRequest400(Raise("ValueError", "Index must be an integer", <<>>),
                           event, <<>>, 0, <<>>)
        ELSE LET v == validate_index(req.val, db_size)
             IN  IF v.exc # "none" THEN BadRequest400(v, event, <<>>, 0, <<>>)
                 ELSE LET g == get_entry(req.val.v)
                      IN  IF g.exc # "none"
                          THEN Internal500(g, "Plaintext query error: {e}",
                                           <<req.val.v>>, 0, <<>>)
                          ELSE Ok200(Returned(g.value, <<req.val.v>>, 0))

\* the handler without isinstance(prf_key_hex, str): bytes.fromhex raises
\* TypeError for a value that is no string, and except Exception answers it
full_set_query_handler_untyped(req) ==
    LET event == "SECURITY: Invalid full set query"
        j == validate_json_request(req)
    IN  IF j.exc # "none" THEN BadRequest400(j, event, <<>>, 0, <<>>)
        ELSE IF req.val.t # "str"
        THEN Internal500(Raise("TypeError", "fromhex() argument must be str, not {type}",
                               <<>>),
                         "Full set query error: {e}", <<>>, 0, <<>>)
        ELSE LET h == fromhex(req.val.s)
             IN  IF h.exc # "none"
                 THEN BadRequest400(Raise("ValueError", "Invalid hex string for prf_key", <<>>),
                                    event, <<>>, 0, <<>>)
                 ELSE LET v == validate_prf_key(PyBytes(h.bytes))
                      IN  IF v.exc # "none" THEN BadRequest400(v, event, <<>>, 0, <<>>)
                          ELSE Caught(full_set_query(PyBytes(h.bytes)), event,
                                      "Full set query error: {e}")

full_set_query_handler(req) ==
    LET event == "SECURITY: Invalid full set query"
        j == validate_json_request(req)
    IN  IF j.exc # "none" THEN BadRequest400(j, event, <<>>, 0, <<>>)
        ELSE IF req.val.t # "str"
        THEN BadRequest400(Raise("ValueError", "PRF key must be a hex string", <<>>),
                           event, <<>>, 0, <<>>)
        ELSE LET h == fromhex(req.val.s)
             IN  IF h.exc # "none"
                 THEN BadRequest400(Raise("ValueError", "Invalid hex string for prf_key", <<>>),
                                    event, <<>>, 0, <<>>)
                 ELSE LET v == validate_prf_key(PyBytes(h.bytes))
                      IN  IF v.exc # "none" THEN BadRequest400(v, event, <<>>, 0, <<>>)
                          ELSE Caught(full_set_query(PyBytes(h.bytes)), event,
                                      "Full set query error: {e}")

\* for idx in indices: the type of idx is checked, then its range
check_indices(indices) ==
    FirstRaised([j \in 1..Len(indices) |->
        IF indices[j].t # "int"
        THEN Raise("ValueError", "All indices must be integers", <<>>)
        ELSE validate_index(indices[j], db_size)])

set_parity_query_handler(req) ==
    LET event == "SECURITY: Invalid set parity query"
        j == validate_json_request(req)
    IN  IF j.exc # "none" THEN BadRequest400(j, event, <<>>, 0, <<>>)
        ELSE IF req.val.t # "list"
        THEN BadRequest400(Raise("ValueError", "Indices must be a list", <<>>),
                           event, <<>>, 0, <<>>)
        ELSE IF Len(req.val.s) = 0
        THEN BadRequest400(Raise("ValueError", "Indices list cannot be empty", <<>>),
                           event, <<>>, 0, <<>>)
        ELSE LET c == check_indices(req.val.s)
             IN  IF c.e.exc # "none" THEN BadRequest400(c.e, event, <<>>, 0, <<>>)
                 ELSE Caught(set_parity_query(req.val.s), event,
                             "Set parity query error: {e}")

health_handler == [status |-> HTTP_OK, body |-> health_check]

----------------------------------------------------------------------------
(* plinko_server.py: the single-file server's full set query *)

\* PlinkoPIRServer.full_set_query of plinko_server.py, on key bytes
server_full_set_query(prf_key) ==
    LET what == "Full set query failed: {e}"
    IN  IF Len(prf_key) # KeyBytes
        THEN Reraised(Raise("ValueError", "PRF key must be 16 bytes, got {len}",
                            <<Len(prf_key)>>), what, <<>>, 0)
        ELSE LET key == PrfKey128(prf_key)
                 prset == PRSet(prf_key)
                 indices == expand(prset, set_size, chunk_size)
                 bad == {j \in 1..Len(indices) : indices[j] < 0 \/ indices[j] >= db_size}
             IN  IF key.exc # "none" THEN Reraised(key, what, <<>>, 0)
                 ELSE IF bad # {}
                 THEN Reraised(Raise("ValueError", "Generated index {idx} out of bounds",
                                     <<indices[MinOf(bad)]>>), what, <<>>, 1)
                 ELSE LET g == FirstRaised([j \in 1..Len(indices) |-> get_entry(indices[j])])
                      IN  IF g.e.exc # "none"
                          THEN Reraised(g.e, what, SubSeq(indices, 1, g.at), 1)
                          ELSE Returned(
                                 compute_xor([j \in 1..Len(indices) |->
                                                 get_entry(indices[j]).value]),
                                 indices, 1)

\* return {"error": message}, 400
Error400(message) ==
    [status |-> HTTP_BAD_REQUEST, exc |-> "none", fmt |-> message, args |-> <<>>,
     returned |-> FALSE, value |-> 0, reads |-> <<>>, expands |-> 0, logs |-> <<>>]

\* full_set_query_handler of plinko_server.py
server_full_set_query_handler(req) ==
    IF req.kind \in {"null", "missing"} THEN Error400("Missing 'prf_key' field")
    ELSE IF req.val.t # "str" THEN Error400("prf_key must be a hex string")
    ELSE LET h == fromhex(req.val.s)
         IN  IF h.exc # "none" THEN Error400("Invalid hex string for prf_key")
             ELSE LET r == server_full_set_query(h.bytes)
                  IN  IF r.exc = "none" THEN Ok200(r)
                      ELSE IF r.exc = "ValueError"
                      THEN [status |-> HTTP_BAD_REQUEST, exc |-> "none", fmt |-> r.fmt,
                            args |-> r.args, returned |-> FALSE, value |-> 0,
                            reads |-> r.reads, expands |-> r.expands, logs |-> r.logs]
                      ELSE Internal500(r, "Full set query error: {e}", r.reads,
                                       r.expands, r.logs)

----------------------------------------------------------------------------
(* The files and the arguments the model draws. *)

FileOf(bytes) == [exists |-> TRUE, bytes |-> bytes]
AbsentFile == [exists |-> FALSE, bytes |-> <<>>]

\* the bytes of n records, record i (from 0) holding first + i * step
RecordBytes(n, first, step) ==
    [p \in 1..(n * entry_size) |->
        uint64_to_bytes(first + (((p - 1) \div entry_size) * step))[((p - 1) % entry_size) + 1]]

\* the test fixture's database, record i = i * 1000, with n records
FixtureFile(n) == FileOf(RecordBytes(n, 0, 1000))

\* what may follow the last whole record of a file
Tails == {<<>>, <<7>>, Rep(<<0>>, entry_size - 1)}

\* the fixture's records, and records whose two low bytes differ
Patterns == {[first |-> 0, step |-> 1000], [first |-> 258, step |-> 513]}

SmallFiles ==
    {FileOf(RecordBytes(n, a.first, a.step) \o tail) :
        n \in 0..MaxRecords, a \in Patterns, tail \in Tails}

\* sizes at which the chunk size is 2 and 3, with records left over
BigSizes == {(2 * ChunkDivisor) + 1, (3 * ChunkDivisor) + 2}

BigFiles == {FixtureFile(n) : n \in BigSizes}

\* indices around both ends of the database
IntArgs == {PyInt(i) : i \in {-1, 0, db_size - 1, db_size}}

IndexArgs == IntArgs \cup {PyStr(<<"7">>)}

\* lists of integers, and a list with an element that is no integer
ListArgs ==
    UNION {[1..n -> IntArgs] : n \in 0..MaxList} \cup {<<PyInt(0), PyStr(<<"7">>)>>}

\* key bytes of 15, 16 and 17 bytes, and a key that is no bytes object
KeyArgs ==
    {PyBytes(Rep(<<b>>, n)) : b \in {0, 10}, n \in (KeyBytes - 1)..(KeyBytes + 1)}
        \cup {PyStr(Rep(<<"0">>, KeyBytes))}

\* prf_key values: 32 digits in lower case, in upper case, with whitespace
\* between the pairs, with whitespace inside the pairs, 30 and 34 digits, 31
\* digits, a character that is no digit, and a value that is no string
HexArgs ==
    {PyStr(Rep(pair, KeyBytes)) :
        pair \in {<<"0", "0">>, <<"0", "a">>, <<"0", "A">>, <<"0", "a", " ">>, <<"0", "g">>}}
        \cup {PyStr(Rep(<<"0", "0">>, n)) : n \in {KeyBytes - 1, KeyBytes + 1}}
        \cup {PyStr(Rep(<<"0">>, (2 * KeyBytes) - 1)),
              PyStr(Rep(<<"0", " ">>, 2 * KeyBytes)), PyInt(7)}

BodyKinds == {"not_json", "null", "missing"}

----------------------------------------------------------------------------
(* The state machine. *)

\* the record kept of a call (layer "engine") or of a request (layer "http")
Answer(layer, op, arg, r, status) ==
    [layer |-> layer, op |-> op, arg |-> arg, exc |-> r.exc, fmt |-> r.fmt,
     args |-> r.args, returned |-> r.returned, value |-> r.value, reads |-> r.reads,
     expands |-> r.expands, logs |-> r.logs, status |-> status]

NoAnswer ==
    [layer |-> "none", op |-> "none", arg |-> PyNone, exc |-> "none", fmt |-> "",
     args |-> <<>>, returned |-> FALSE, value |-> 0, reads |-> <<>>, expands |-> 0,
     logs |-> <<>>, status |-> 0]

\* the place of an object that is not there
NoObject == [key |-> <<>>, encryptor |-> 0]

\* the record kept of a direct call: its arguments, what it raised, the
\* number or the list it returned, and the steps it took
LibCall(op, args, exc, value, list, updates, divided) ==
    [op |-> op, args |-> args, exc |-> exc, value |-> value, list |-> list,
     updates |-> updates, divided |-> divided]

NoCall == LibCall("none", <<>>, "none", 0, <<>>, 0, FALSE)

\* no IPRF object has been constructed
NoIPRF == [key |-> <<>>, domain |-> 0, range_size |-> 0]

\* the threads of the transport
Threads == 1..NumThreads

\* what a call has come to: the exception it raised or the value it returned
Outcome(r) ==
    [exc |-> r.exc, fmt |-> r.fmt, args |-> r.args, returned |-> r.returned,
     value |-> r.value]

\* a thread that runs no call
Idle ==
    [op |-> "none", arg |-> PyNone, at |-> "idle", prset |-> NoObject, indices |-> <<>>,
     values |-> <<>>, out |-> Outcome(Returned(0, <<>>, 0)), overlapped |-> FALSE]

\* the process has not read its configuration
NoConfig == [at |-> "none"]

\* no load has waited
NoWait == [timeout |-> 0, arrival |-> 0, checks |-> 0, sleeps |-> 0]

InitWith(files) ==
    /\ file \in files
    /\ data = <<>>
    /\ size = 0
    /\ db_size = 0
    /\ chunk_size = 0
    /\ set_size = 0
    /\ pc = "start"
    /\ resp = NoAnswer
    /\ seen = <<>>
    /\ waited = NoWait
    /\ threads = [t \in Threads |-> Idle]

\* no library object is called directly
NoLibrary ==
    /\ prset_obj = NoObject
    /\ iprf_obj = NoIPRF
    /\ config = NoConfig
    /\ call = NoCall
    /\ evals = <<>>

Init == InitWith(SmallFiles \cup {AbsentFile}) /\ NoLibrary

\* database = PlinkoDatabase(path); database.load(timeout).  A DatabaseError
\* ends the process (exit(1) in main).
LoadWith(timeout, arrival) ==
    /\ pc = "start"
    /\ LET r == load(file, size, data, timeout, arrival)
       IN  /\ size' = r.size
           /\ data' = r.data
           /\ waited' = [timeout |-> timeout, arrival |-> arrival, checks |-> r.checks,
                          sleeps |-> r.sleeps]
           /\ pc' = IF r.exc = "none" THEN "loaded" ELSE "exited"
           /\ resp' = [NoAnswer EXCEPT !.layer = "startup", !.op = "load",
                                       !.exc = r.exc, !.fmt = r.fmt, !.args = r.args,
                                       !.returned = (r.exc = "none")]
    /\ UNCHANGED <<file, db_size, chunk_size, set_size, seen, threads, config, prset_obj,
                   iprf_obj, call, evals>>

\* the load of the server's start: the configured timeout, the file there
\* or not from the beginning
Load == LoadWith(database_wait_timeout, 0)

\* server = PlinkoPIRServer(database)
ServerInit ==
    /\ pc = "loaded"
    /\ db_size' = get_size
    /\ chunk_size' = chunk_size_of(get_size)
    /\ set_size' = set_size_of(get_size)
    /\ pc' = "serving"
    /\ resp' = [NoAnswer EXCEPT !.layer = "startup", !.op = "init", !.returned = TRUE]
    /\ UNCHANGED <<file, data, size, seen, waited, threads, config, prset_obj, iprf_obj,
                   call, evals>>

\* a query that takes the entry it reads out of the list of entries
Frame_consuming ==
    /\ data' = IF data = <<>> THEN data ELSE Tail(data)
    /\ UNCHANGED <<file, size, db_size, chunk_size, set_size, pc, waited, threads, config,
                   prset_obj, iprf_obj, call, evals>>

\* a request that ends the process when it does not return a value
Frame_exiting ==
    /\ pc' = IF resp'.returned THEN pc ELSE "exited"
    /\ UNCHANGED <<file, data, size, db_size, chunk_size, set_size, waited, threads, config,
                   prset_obj, iprf_obj, call, evals>>

\* what health_check, the three queries and their handlers leave as it is:
\* none of them assigns to an attribute of the database or of the server
Frame ==
    UNCHANGED <<file, data, size, db_size, chunk_size, set_size, pc, waited, threads, config,
                prset_obj, iprf_obj, call, evals>>

HealthCall ==
    /\ pc = "serving"
    /\ resp' = [NoAnswer EXCEPT !.layer = "engine", !.op = "health", !.returned = TRUE,
                                !.value = health_check]
    /\ UNCHANGED seen
    /\ Frame

PlaintextCall(index) ==
    /\ pc = "serving"
    /\ resp' = Answer("engine", "plaintext", index, plaintext_query(index), 0)
    /\ UNCHANGED seen
    /\ Frame

SetParityCall(indices) ==
    /\ pc = "serving"
    /\ resp' = Answer("engine", "set_parity", PyList(indices), set_parity_query(indices), 0)
    /\ UNCHANGED seen
    /\ Frame

\* the pairs seen, with the pair of this call if it returned a value
Seen(key, r) == IF r.returned THEN Append(seen, <<key, r.value>>) ELSE seen

FullSetCall(prf_key) ==
    /\ pc = "serving"
    /\ Len(seen) < MaxHistory
    /\ LET r == full_set_query(prf_key)
       IN  /\ resp' = Answer("engine", "full_set", prf_key, r, 0)
           /\ seen' = Seen(prf_key.s, r)
    /\ Frame

EngineNext ==
    \/ Load
    \/ ServerInit
    \/ HealthCall
    \/ \E index \in IndexArgs : PlaintextCall(index)
    \/ \E indices \in ListArgs : SetParityCall(indices)
    \/ \E prf_key \in KeyArgs : FullSetCall(prf_key)

\* POST /query/plaintext of handlers.py
PlaintextRequest(req) ==
    /\ pc = "serving"
    /\ LET r == plaintext_query_handler(req)
       IN  resp' = Answer("http", "plaintext", req, r, r.status)
    /\ UNCHANGED seen
    /\ Frame

\* POST /query/setparity of handlers.py
SetParityRequest(req) ==
    /\ pc = "serving"
    /\ LET r == set_parity_query_handler(req)
       IN  resp' = Answer("http", "set_parity", req, r, r.status)
    /\ UNCHANGED seen
    /\ Frame

\* the key bytes the handler decoded from the request, <<>> if it decoded none
DecodedKey(req) ==
    IF req.kind = "field" /\ req.val.t = "str" /\ fromhex(req.val.s).exc = "none"
    THEN fromhex(req.val.s).bytes ELSE <<>>

\* POST /query/fullset of handlers.py
FullSetRequest(req) ==
    /\ pc = "serving"
    /\ Len(seen) < MaxHistory
    /\ LET r == full_set_query_handler(req)
       IN  /\ resp' = Answer("http", "full_set", req, r, r.status)
           /\ seen' = Seen(DecodedKey(req), r)
    /\ Frame

\* POST /query/fullset of plinko_server.py
ServerFullSetRequest(req) ==
    /\ pc = "serving"
    /\ Len(seen) < MaxHistory
    /\ LET r == server_full_set_query_handler(req)
       IN  /\ resp' = Answer("server", "full_set", req, r, r.status)
           /\ seen' = Seen(DecodedKey(req), r)
    /\ Frame

\* GET /health of handlers.py
HealthRequest ==
    /\ pc = "serving"
    /\ resp' = [NoAnswer EXCEPT !.layer = "http", !.op = "health", !.returned = TRUE,
                                !.value = health_handler.body,
                                !.status = health_handler.status]
    /\ UNCHANGED seen
    /\ Frame

HttpNext ==
    \/ HealthRequest
    \/ \E kind \in BodyKinds : PlaintextRequest(Request(kind, PyNone))
    \/ \E index \in IndexArgs : PlaintextRequest(Request("field", index))
    \/ \E kind \in BodyKinds : SetParityRequest(Request(kind, PyNone))
    \/ \E indices \in ListArgs : SetParityRequest(Request("field", PyList(indices)))
    \/ SetParityRequest(Request("field", PyInt(0)))
    \/ \E kind \in BodyKinds : FullSetRequest(Request(kind, PyNone))
    \/ \E prf_key \in HexArgs : FullSetRequest(Request("field", prf_key))
    \/ ServerFullSetRequest(Request("missing", PyNone))
    \/ \E prf_key \in HexArgs : ServerFullSetRequest(Request("field", prf_key))

Next == EngineNext \/ HttpNext

Spec == Init /\ [][Next]_vars

\* The engine on the fixture databases, large enough for chunks of 2 and 3
\* entries, beside the empty and the one-record database.
BigIndexArgs == {PyInt(i) : i \in {-1, 0, db_size - 1, db_size}}

BigListArgs == {<<>>} \cup {<<index>> : index \in BigIndexArgs}

BigKeyArgs ==
    {PyBytes(Rep(<<b>>, KeyBytes)) : b \in {0, 10}}
        \cup {PyBytes(Rep(<<0>>, n)) : n \in {KeyBytes - 1, KeyBytes + 1}}

InitBig == InitWith(BigFiles \cup {FixtureFile(n) : n \in 0..1}) /\ NoLibrary

NextBig ==
    \/ Load
    \/ ServerInit
    \/ HealthCall
    \/ \E index \in BigIndexArgs : PlaintextCall(index)
    \/ \E indices \in BigListArgs : SetParityCall(indices)
    \/ \E prf_key \in BigKeyArgs : FullSetCall(prf_key)

SpecBig == InitBig /\ [][NextBig]_vars

----------------------------------------------------------------------------
(* What the properties speak of. *)

\* the number of whole records of the database file
NumRecords == Len(file.bytes) \div entry_size

\* block i (from 0) of the database file
FileBlock(i) == SubSeq(file.bytes, (i * entry_size) + 1, (i * entry_size) + entry_size)

\* the number a block writes most significant byte first: byte k of a block
\* of w bytes weighs 256^(w - k)
RECURSIVE WeightedSum(_, _)
WeightedSum(block, k) ==
    IF k = 0 THEN 0
    ELSE WeightedSum(block, k - 1)
            + (IF block[k] = 0 THEN 0 ELSE block[k] * (256 ^ (Len(block) - k)))

FileRecord(i) == WeightedSum(FileBlock(i), entry_size)

\* bit by bit, the exclusive or of all the values of a list: a bit is set
\* when an odd number of positions of the list have it set
RECURSIVE ParityXor(_)
ParityXor(values) ==
    IF \A j \in DOMAIN values : values[j] = 0 THEN 0
    ELSE (Cardinality({j \in DOMAIN values : values[j] % 2 = 1}) % 2)
            + (2 * ParityXor([j \in DOMAIN values |-> values[j] \div 2]))

\* what the last call or request asked with
Asked == IF resp.layer = "engine" THEN resp.arg ELSE resp.arg.val

\* the last step is the answer to a request that carried its field
OverHttp == resp.layer \in {"http", "server"} /\ resp.arg.kind = "field"

Answered(op) == resp.op = op /\ (resp.layer = "engine" \/ OverHttp)

IsIntIn(x, n) == x.t = "int" /\ x.v >= 0 /\ x.v < n

IsIntOut(x, n) == x.t = "int" /\ (x.v < 0 \/ x.v >= n)

----------------------------------------------------------------------------
(* Properties. *)

\* C1: a plaintext query with an index i in [0, n) returns the number that
\* the i-th 8-byte block of the database file writes as an unsigned
\* big-endian integer, for the index asked and for every index of the file.
C1_PlaintextDecodesBlock ==
    /\ (Answered("plaintext") /\ IsIntIn(Asked, NumRecords)) =>
          /\ resp.returned
          /\ resp.value = FileRecord(Asked.v)
          /\ resp.layer = "http" => resp.status = HTTP_OK
    /\ pc = "serving" =>
          \A i \in 0..(NumRecords - 1) :
              /\ plaintext_query(PyInt(i)).returned
              /\ plaintext_query(PyInt(i)).value = FileRecord(i)

\* the last record of a full small file was asked over HTTP, and its value
\* needs more than its lowest byte
C1_Witness ==
    /\ Answered("plaintext")
    /\ resp.layer = "http"
    /\ resp.returned
    /\ NumRecords = MaxRecords
    /\ Asked.v = NumRecords - 1
    /\ resp.value > 255
    /\ resp.value % 256 # 0

\* C2: a set parity query with a list of indices, all in range, returns the
\* exclusive or of records[i] taken once for every position of the list, so
\* that an index listed twice cancels.
C2_SetParityXorsEachOccurrence ==
    (/\ Answered("set_parity")
     /\ Asked.t = "list"
     /\ Len(Asked.s) > 0
     /\ \A j \in 1..Len(Asked.s) : IsIntIn(Asked.s[j], NumRecords)) =>
        /\ resp.returned
        /\ resp.value = ParityXor([j \in 1..Len(Asked.s) |-> FileRecord(Asked.s[j].v)])

\* an index whose record is not 0 was listed twice, and the parity is 0
C2_Witness ==
    /\ Answered("set_parity")
    /\ resp.returned
    /\ Len(Asked.s) = 2
    /\ Asked.s[1].v = Asked.s[2].v
    /\ FileRecord(Asked.s[1].v) # 0
    /\ resp.value = 0

\* C3: for a key k of 16 bytes, full_set(k) returns the value that set_parity
\* returns for the list expand(setSize, chunkSize) of the set of k, and it
\* returns no value exactly when set_parity returns none for that list.
C3_FullSetIsParityOfExpansion ==
    (/\ resp.op = "full_set"
     /\ resp.layer = "engine"
     /\ resp.arg.t = "bytes"
     /\ Len(resp.arg.s) = KeyBytes) =>
        LET indices == expand(PRSet(resp.arg.s), set_size, chunk_size)
            parity == set_parity_query([j \in 1..Len(indices) |-> PyInt(indices[j])])
        IN  /\ resp.returned = parity.returned
            /\ resp.value = parity.value

\* full_set returned a value that is not 0 on the database whose chunks have
\* three entries
C3_Witness ==
    /\ resp.op = "full_set"
    /\ resp.layer = "engine"
    /\ resp.returned
    /\ chunk_size = 3
    /\ Len(resp.reads) = set_size
    /\ resp.value # 0

\* C4: on a loaded database, full_set returns the same value every time it
\* is called with the same key, whatever was called before or in between.
C4_FullSetDeterministic ==
    \A i, j \in 1..Len(seen) : seen[i][1] = seen[j][1] => seen[i][2] = seen[j][2]

\* full_set returned twice for one key on a database with chunks of more than
\* one entry, and another query has been answered since
C4_Witness ==
    /\ Len(seen) = 2
    /\ seen[1][1] = seen[2][1]
    /\ seen[1][2] # 0
    /\ chunk_size > 1
    /\ resp.op = "set_parity"

\* C5: a plaintext query with an index below 0 or not below n fails in
\* validation: the engine raises ValueError, the handler answers 400, no
\* value is returned and no entry is read.
C5_OutOfRangeIndexRejected ==
    (Answered("plaintext") /\ IsIntOut(Asked, NumRecords)) =>
        /\ ~resp.returned
        /\ resp.reads = <<>>
        /\ resp.layer = "engine" => resp.exc = "ValueError"
        /\ resp.layer = "http" => resp.status = HTTP_BAD_REQUEST

\* the index n was asked over HTTP of a database with records
C5_Witness ==
    /\ Answered("plaintext")
    /\ resp.layer = "http"
    /\ NumRecords > 0
    /\ Asked.t = "int"
    /\ Asked.v = NumRecords
    /\ resp.status = HTTP_BAD_REQUEST

\* C6: a set parity query with the empty list fails, whatever the size of the
\* database: the engine raises ValueError and the handler answers 400.
C6_EmptyListRejected ==
    (Answered("set_parity") /\ Asked.t = "list" /\ Len(Asked.s) = 0) =>
        /\ ~resp.returned
        /\ resp.layer = "engine" => resp.exc = "ValueError"
        /\ resp.layer = "http" => resp.status = HTTP_BAD_REQUEST

\* the empty list was sent over HTTP to a database with records
C6_Witness ==
    /\ Answered("set_parity")
    /\ resp.layer = "http"
    /\ Asked.t = "list"
    /\ Len(Asked.s) = 0
    /\ NumRecords > 0
    /\ resp.status = HTTP_BAD_REQUEST

\* C7: a set parity query whose list has an index out of range at any
\* position fails in validation and returns no parity: the engine raises
\* ValueError before it reads an entry, the handler answers 400.
C7_AnyOutOfRangeElementRejected ==
    (/\ Answered("set_parity")
     /\ Asked.t = "list"
     /\ \E j \in 1..Len(Asked.s) : IsIntOut(Asked.s[j], NumRecords)) =>
        /\ ~resp.returned
        /\ resp.reads = <<>>
        /\ resp.layer = "engine" => resp.exc = "ValueError"
        /\ resp.layer = "http" => resp.status = HTTP_BAD_REQUEST

\* the engine was asked with a list whose first index is in range and whose
\* last is not
C7_Witness ==
    /\ Answered("set_parity")
    /\ resp.layer = "engine"
    /\ Len(Asked.s) = 2
    /\ IsIntIn(Asked.s[1], NumRecords)
    /\ IsIntOut(Asked.s[2], NumRecords)
    /\ resp.exc = "ValueError"

\* the key bytes of the last full set query, <<>> where the request gave none
AskedKey ==
    IF resp.layer = "engine" THEN (IF Asked.t = "bytes" THEN Asked.s ELSE <<>>)
    ELSE DecodedKey(resp.arg)

\* the last step answered a full set query that came with key bytes
AnsweredKey ==
    /\ Answered("full_set")
    /\ resp.layer = "engine" => Asked.t = "bytes"
    /\ resp.layer # "engine" => (Asked.t = "str" /\ fromhex(Asked.s).exc = "none")

\* C8: a full set query with a key that is not 16 bytes long fails as a bad
\* request (ValueError in the engine, 400 over HTTP) before any set is
\* expanded and before any record is read.
C8_BadKeyLengthRejectedFirst ==
    (AnsweredKey /\ Len(AskedKey) # KeyBytes) =>
        /\ ~resp.returned
        /\ resp.expands = 0
        /\ resp.reads = <<>>
        /\ resp.layer = "engine" => resp.exc = "ValueError"
        /\ resp.layer # "engine" => resp.status = HTTP_BAD_REQUEST

\* the engine was called with a key of 17 bytes on a database with records
C8_Witness ==
    /\ AnsweredKey
    /\ resp.layer = "engine"
    /\ Len(AskedKey) = KeyBytes + 1
    /\ NumRecords > 0
    /\ resp.exc = "ValueError"
    /\ resp.expands = 0

\* the code points of 0..9 and a..f, of A..F, and of ASCII whitespace
LowerHexDigits == (48..57) \cup (97..102)
UpperHexDigits == 65..70
Whitespace == {32} \cup (9..13)

\* a string of exactly 32 characters, each a hexadecimal digit in lower case
IsLowerHex32(x) ==
    /\ x.t = "str"
    /\ Len(x.s) = 2 * KeyBytes
    /\ \A p \in 1..Len(x.s) : x.s[p] \in LowerHexDigits

\* a string whose characters other than whitespace are 32 hexadecimal
\* digits of either case, the two digits of each pair next to each other
IsHexPairs16(x) ==
    /\ x.t = "str"
    /\ LET digits == {p \in 1..Len(x.s) : x.s[p] \notin Whitespace}
           rank(p) == Cardinality({q \in digits : q <= p})
       IN  /\ Cardinality(digits) = 2 * KeyBytes
           /\ \A p \in digits : x.s[p] \in (LowerHexDigits \cup UpperHexDigits)
           /\ \A p \in digits : rank(p) % 2 = 1 => (p + 1) \in digits

C10_BadExpansionIsInternal ==
    (/\ Answered("full_set")
     /\ OverHttp
     /\ AnsweredKey
     /\ Len(AskedKey) = KeyBytes
     /\ \E j \in 1..set_size :
           expand(PRSet(AskedKey), set_size, chunk_size)[j] \notin 0..(NumRecords - 1)) =>
        /\ resp.status = HTTP_INTERNAL_ERROR
        /\ resp.fmt = "Internal server error"

----------------------------------------------------------------------------
(* What a message says of the caller's input. *)

\* the positions of args whose value a message template writes out as the
\* index it was given: f"Index cannot be negative: {index}" and
\* f"Index {index} out of bounds [0, {max_index})"
IndexSlots(fmt) ==
    IF fmt \in {"Index cannot be negative: {index}",
                "Index {index} out of bounds [0, {max_index})"}
    THEN {1} ELSE {}

\* the indices the caller of the last query supplied
CallerIndices ==
    IF resp.op = "plaintext" /\ Asked.t = "int" THEN {Asked.v}
    ELSE IF resp.op = "set_parity" /\ Asked.t = "list"
    THEN {Asked.s[j].v : j \in {k \in 1..Len(Asked.s) : Asked.s[k].t = "int"}}
    ELSE {}

\* the message fmt with args writes out an index the caller supplied
EchoesIndex(fmt, args) == \E k \in IndexSlots(fmt) : args[k] \in CallerIndices

AnsweredQuery == \E op \in {"plaintext", "set_parity", "full_set"} : Answered(op)

\* C11: while a plaintext, set parity or full set request is handled, whether
\* it succeeds or is rejected, no log line of the engine or of the handlers
\* writes out an index the caller supplied (no message template writes out
\* key bytes).
C11_NoCallerIndexInLogs ==
    AnsweredQuery =>
        \A k \in 1..Len(resp.logs) : ~EchoesIndex(resp.logs[k].fmt, resp.logs[k].args)

\* C12: the error message in the body of a rejected request does not write
\* out the index the caller provided (no message template writes out the
\* key).
C12_NoCallerIndexInErrorBody ==
    (AnsweredQuery /\ OverHttp /\ resp.status # HTTP_OK) =>
        ~EchoesIndex(resp.fmt, resp.args)

\* C13: for every database size n that load accepts, the chunk size and the
\* set size computed when the engine is initialised satisfy
\* set_size * chunk_size <= n.
C13_SetTimesChunkWithinDatabase ==
    pc = "serving" =>
        /\ chunk_size = Max(1, NumRecords \div ChunkDivisor)
        /\ set_size = Max(1, NumRecords \div chunk_size)
        /\ set_size * chunk_size <= NumRecords

----------------------------------------------------------------------------
(* A PRSet called directly (tests/test_prset.py). *)

\* the keys of the PRSet objects: the tests' all-zero key and two others
PRSetKeys == {Rep(<<0>>, KeyBytes), Rep(<<10>>, KeyBytes), [j \in 1..KeyBytes |-> j]}

\* the x and the m of prf_eval_mod: 0 and 5 with the moduli 0, 1, MaxChunk
\* and 100 (test_prf_eval_mod)
EvalArgs == {<<x, m>> : x \in {0, 5}, m \in {0, 1, MaxChunk, 100}}

\* the set sizes and chunk sizes of expand
ExpandArgs == {<<k, c>> : k \in 0..MaxSetSize, c \in (1..MaxChunk) \cup {100}}

InitPRSet ==
    /\ InitWith({AbsentFile})
    /\ prset_obj \in {PRSet(key) : key \in PRSetKeys}
    /\ iprf_obj = NoIPRF
    /\ config = NoConfig
    /\ call = NoCall
    /\ evals = <<>>

ServerFrame ==
    UNCHANGED <<file, data, size, db_size, chunk_size, set_size, pc, resp, seen, waited,
                threads, config>>

\* prset.prf_eval_mod(x, m)
PrfEvalModCall(x, m) ==
    /\ Len(evals) < MaxHistory
    /\ LET r == prf_eval_mod_steps(prset_obj, x, m)
       IN  /\ call' = LibCall("prf_eval_mod", <<x, m>>, r.exc, r.value, <<>>,
                              r.updates, r.divided)
           /\ evals' = IF r.exc = "none" THEN Append(evals, <<x, m, r.value>>) ELSE evals
    /\ UNCHANGED <<prset_obj, iprf_obj>>
    /\ ServerFrame

\* prset.expand(set_size, chunk_size)
ExpandCall(k, c) ==
    /\ call' = LibCall("expand", <<k, c>>, "none", 0, expand(prset_obj, k, c), k, c # 0)
    /\ UNCHANGED <<prset_obj, iprf_obj, evals>>
    /\ ServerFrame

NextPRSet ==
    \/ \E a \in EvalArgs : PrfEvalModCall(a[1], a[2])
    \/ \E a \in ExpandArgs : ExpandCall(a[1], a[2])

SpecPRSet == InitPRSet /\ [][NextPRSet]_vars

\* C14: for every key, every k >= 0 and every chunk size c >= 1, expand(k, c)
\* returns exactly k indices, the i-th of them (from 0) in [i*c, (i+1)*c).
C14_ExpandOnePerChunk ==
    (call.op = "expand" /\ call.args[1] >= 0 /\ call.args[2] >= 1) =>
        LET k == call.args[1]
            c == call.args[2]
        IN  /\ Len(call.list) = k
            /\ \A i \in 0..(k - 1) :
                  /\ (i * c) <= call.list[i + 1]
                  /\ call.list[i + 1] < ((i + 1) * c)

\* MaxSetSize indices with chunks of MaxChunk entries, two of them at
\* different places of their chunks
C14_Witness ==
    /\ call.op = "expand"
    /\ call.args = <<MaxSetSize, MaxChunk>>
    /\ Len(call.list) = MaxSetSize
    /\ \E i, j \in 0..(MaxSetSize - 1) :
          (call.list[i + 1] - (i * MaxChunk)) # (call.list[j + 1] - (j * MaxChunk))

\* C15: prf_eval_mod(x, 0) returns 0 for every x and evaluates no division;
\* for m >= 1 it returns a value in [0, m), the same on every call of one
\* PRSet with the same x and m.
C15_PrfEvalModRange ==
    /\ call.op = "prf_eval_mod" =>
          /\ call.exc = "none"
          /\ call.args[2] = 0 => (call.value = 0 /\ ~call.divided)
          /\ call.args[2] >= 1 => (call.value >= 0 /\ call.value < call.args[2])
    /\ \A i, j \in 1..Len(evals) :
          (evals[i][1] = evals[j][1] /\ evals[i][2] = evals[j][2]) =>
              evals[i][3] = evals[j][3]

\* prf_eval_mod(5, 0) returned 0 after a call with modulus 100 returned a
\* value that is not 0
C15_Witness ==
    /\ call.op = "prf_eval_mod"
    /\ call.args = <<5, 0>>
    /\ call.value = 0
    /\ Len(evals) = 2
    /\ evals[1][2] = 100
    /\ evals[1][3] > 0

----------------------------------------------------------------------------
(* The iPRF: the class IPRF of the module iprf, which tests/test_iprf.py
   imports and calls, written as section 4.D of the specification describes
   it: the n balls of the
   domain [0, n) are the block [start, start + B) of a node of the range
   tree, a node over the bins [lo, hi) passes L of its B balls to its left
   half [lo, mid) and the other B - L to its right half, L being a binomial
   draw seeded by the key and the node's identity, and a node over a single
   bin is the bin of the balls of its block. *)

\* encode_node(lo, hi, originalN): the canonical encoding of the three
\* values, one for each node of the trees of one domain
encode_node(lo, hi, originalN) == <<lo, hi, originalN>>

\* H(key, node_id): the seed of the randomness of a node
node_seed(key, node_id) ==
    BlockWord(KeySchedule(key, Len(key)),
              (node_id[1] * 64) + (node_id[2] * 8) + node_id[3])

\* the ball count taken from the node's identity, not from the node
sample_binomial_of_domain(key, node_id, B, num, den) ==
    Cardinality({i \in 1..node_id[3] : (BlockWord(node_seed(key, node_id), i) % den) < num})

\* Binomial(B, num/den) from the seed of a node: the sum of B Bernoulli
\* draws, each 1 with probability num/den
sample_binomial(key, node_id, B, num, den) ==
    Cardinality({i \in 1..B : (BlockWord(node_seed(key, node_id), i) % den) < num})

\* the outcome of a construction: the exception it raises and the object
Constructed(e, obj) == [exc |-> e.exc, fmt |-> e.fmt, args |-> e.args, obj |-> obj]

\* the construction with the range left unchecked
IPRF_any_range(key, domain, range_size) ==
    IF Len(key) # KeyBytes
    THEN Constructed(Raise("ValueError", "Key must be 16 bytes", <<>>), NoIPRF)
    ELSE IF domain <= 0
    THEN Constructed(Raise("ValueError", "Domain and range must be > 0", <<>>), NoIPRF)
    ELSE Constructed(NoExc, [key |-> key, domain |-> domain, range_size |-> range_size])

\* IPRF(key, domain, range_size)
IPRF(key, domain, range_size) ==
    IF Len(key) # KeyBytes
    THEN Constructed(Raise("ValueError", "Key must be 16 bytes", <<>>), NoIPRF)
    ELSE IF domain <= 0 \/ range_size <= 0
    THEN Constructed(Raise("ValueError", "Domain and range must be > 0", <<>>), NoIPRF)
    ELSE Constructed(NoExc, [key |-> key, domain |-> domain, range_size |-> range_size])

\* the walk of forward from the node over the bins [lo, hi) that holds the
\* B balls [start, start + B): the bin of ball x
RECURSIVE trace_ball(_, _, _, _, _, _)
trace_ball(iprf, x, lo, hi, start, B) ==
    IF (hi - lo) <= 1 THEN lo
    ELSE LET mid == (lo + hi) \div 2
             L == sample_binomial(iprf.key, encode_node(lo, hi, iprf.domain), B,
                                  mid - lo, hi - lo)
         IN  IF x < (start + L)
             THEN trace_ball(iprf, x, lo, mid, start, L)
             ELSE trace_ball(iprf, x, mid, hi, start + L, B - L)

\* iprf.forward(x)
forward(iprf, x) == trace_ball(iprf, x, 0, iprf.range_size, 0, iprf.domain)

\* the walk of inverse with the node's identity made of the node's ball
\* count in the place of the domain
RECURSIVE trace_bin_conflated(_, _, _, _, _, _)
trace_bin_conflated(iprf, y, lo, hi, start, B) ==
    IF (hi - lo) <= 1 THEN [j \in 1..B |-> (start + j) - 1]
    ELSE LET mid == (lo + hi) \div 2
             L == sample_binomial(iprf.key, encode_node(lo, hi, B), B,
                                  mid - lo, hi - lo)
         IN  IF y < mid
             THEN trace_bin_conflated(iprf, y, lo, mid, start, L)
             ELSE trace_bin_conflated(iprf, y, mid, hi, start + L, B - L)

inverse_conflated(iprf, y) ==
    trace_bin_conflated(iprf, y, 0, iprf.range_size, 0, iprf.domain)

\* the walk of inverse from the node over the bins [lo, hi) that holds the
\* B balls [start, start + B), replaying the splits of forward: the balls
\* of bin y
RECURSIVE trace_bin(_, _, _, _, _, _)
trace_bin(iprf, y, lo, hi, start, B) ==
    IF (hi - lo) <= 1 THEN [j \in 1..B |-> (start + j) - 1]
    ELSE LET mid == (lo + hi) \div 2
             L == sample_binomial(iprf.key, encode_node(lo, hi, iprf.domain), B,
                                  mid - lo, hi - lo)
         IN  IF y < mid
             THEN trace_bin(iprf, y, lo, mid, start, L)
             ELSE trace_bin(iprf, y, mid, hi, start + L, B - L)

\* iprf.inverse(y)
inverse(iprf, y) == trace_bin(iprf, y, 0, iprf.range_size, 0, iprf.domain)

\* the keys of the IPRF objects: the tests' key b'0123456789abcdef' and a
\* second key of 16 bytes
IPRFKeys ==
    {<<48, 49, 50, 51, 52, 53, 54, 55, 56, 57, 97, 98, 99, 100, 101, 102>>,
     [j \in 1..KeyBytes |-> j]}

\* keys of other lengths: the tests' b'short', an empty key and 17 bytes
IPRFBadKeys == {<<115, 104, 111, 114, 116>>, <<>>, Rep(<<0>>, KeyBytes + 1)}

\* the domains and ranges a construction is given
DomainArgs == (-1)..MaxDomain
RangeArgs == (-1)..MaxRange

InitIPRF ==
    /\ InitWith({AbsentFile})
    /\ NoLibrary

PRSetFrame == UNCHANGED <<prset_obj, evals>>

\* iprf = IPRF(key, domain, range_size)
IPRFCall(key, n, m) ==
    /\ LET r == IPRF(key, n, m)
       IN  /\ iprf_obj' = IF r.exc = "none" THEN r.obj ELSE iprf_obj
           /\ call' = LibCall("IPRF", <<Len(key), n, m>>, r.exc, 0, <<>>, 0, FALSE)
    /\ PRSetFrame
    /\ ServerFrame

\* iprf.forward(x)
ForwardCall(x) ==
    /\ iprf_obj # NoIPRF
    /\ call' = LibCall("forward", <<x>>, "none", forward(iprf_obj, x), <<>>, 0, FALSE)
    /\ UNCHANGED iprf_obj
    /\ PRSetFrame
    /\ ServerFrame

\* iprf.inverse(y)
InverseCall(y) ==
    /\ iprf_obj # NoIPRF
    /\ call' = LibCall("inverse", <<y>>, "none", 0, inverse(iprf_obj, y), 0, FALSE)
    /\ UNCHANGED iprf_obj
    /\ PRSetFrame
    /\ ServerFrame

NextIPRF ==
    \/ \E key \in IPRFKeys \cup IPRFBadKeys, n \in DomainArgs, m \in RangeArgs :
          IPRFCall(key, n, m)
    \/ \E x \in 0..(iprf_obj.domain - 1) : ForwardCall(x)
    \/ \E y \in 0..(iprf_obj.range_size - 1) : InverseCall(y)

SpecIPRF == InitIPRF /\ [][NextIPRF]_vars

\* the elements of a list
Elements(list) == {list[i] : i \in 1..Len(list)}

\* the preimage of bin y by scanning forward over the whole domain
GroundTruth(iprf, y) == {x \in 0..(iprf.domain - 1) : forward(iprf, x) = y}

\* C16: for an iPRF over the domain [0, n) and the range [0, m), inverse(y)
\* returns exactly the set of the x in [0, n) with forward(x) = y.
C16_InverseIsPreimage ==
    call.op = "inverse" =>
        Elements(call.list) = GroundTruth(iprf_obj, call.args[1])

\* inverse returned two or more x, and not the whole domain, for a bin of
\* a range of three or more bins
C16_Witness ==
    /\ call.op = "inverse"
    /\ iprf_obj.range_size >= 3
    /\ Len(call.list) >= 2
    /\ Len(call.list) < iprf_obj.domain
    /\ Elements(call.list) = GroundTruth(iprf_obj, call.args[1])

\* the sum of the lengths of the lists inverse returns for the bins 0..(bins - 1)
RECURSIVE PreimageTotal(_, _)
PreimageTotal(iprf, bins) ==
    IF bins = 0 THEN 0
    ELSE PreimageTotal(iprf, bins - 1) + Len(inverse(iprf, bins - 1))

\* C17: the lists inverse returns for y = 0..m-1 have no x twice, no x in
\* two of them, and lengths that sum to n.
C17_PreimagesPartitionDomain ==
    call.op = "inverse" =>
        /\ \A i, j \in 1..Len(call.list) : (i # j) => (call.list[i] # call.list[j])
        /\ \A y \in 0..(iprf_obj.range_size - 1) :
              (y # call.args[1]) =>
                  (Elements(call.list) \cap Elements(inverse(iprf_obj, y)) = {})
        /\ PreimageTotal(iprf_obj, iprf_obj.range_size) = iprf_obj.domain

\* inverse returned the list of one of three bins that all have an x, over
\* the largest domain
C17_Witness ==
    /\ call.op = "inverse"
    /\ iprf_obj.domain = MaxDomain
    /\ Len(call.list) >= 2
    /\ Cardinality({y \in 0..(iprf_obj.range_size - 1) : Len(inverse(iprf_obj, y)) > 0}) >= 3
    /\ PreimageTotal(iprf_obj, iprf_obj.range_size) = MaxDomain

\* C18: the construction of an iPRF fails with ValueError when the key is
\* not 16 bytes long, n <= 0 or m <= 0; of an iPRF that was constructed,
\* forward(x) is in [0, m) for every x in [0, n) and inverse(y) returns a
\* result for every y in [0, m).
C18_ConstructionChecksParameters ==
    /\ call.op = "IPRF" =>
          IF call.args[1] # KeyBytes \/ call.args[2] <= 0 \/ call.args[3] <= 0
          THEN call.exc = "ValueError"
          ELSE /\ call.exc = "none"
               /\ iprf_obj.domain = call.args[2]
               /\ iprf_obj.range_size = call.args[3]
    /\ iprf_obj # NoIPRF =>
          /\ iprf_obj.domain > 0
          /\ iprf_obj.range_size > 0
          /\ Len(iprf_obj.key) = KeyBytes
    /\ call.op = "forward" =>
          /\ call.exc = "none"
          /\ call.value >= 0
          /\ call.value < iprf_obj.range_size
    /\ call.op = "inverse" =>
          /\ call.exc = "none"
          /\ Elements(call.list) \subseteq 0..(iprf_obj.domain - 1)

\* a construction with a range of 0 failed after one with the largest domain
\* and range had made an object
C18_Witness ==
    /\ call.op = "IPRF"
    /\ call.args[1] = KeyBytes
    /\ call.args[2] > 0
    /\ call.args[3] = 0
    /\ call.exc = "ValueError"
    /\ iprf_obj.domain = MaxDomain
    /\ iprf_obj.range_size = MaxRange

----------------------------------------------------------------------------
(* A PlinkoDatabase loaded directly (tests/test_server.py,
   TestDatabaseOperations), with any timeout and a file that is there from
   the beginning, comes later or never comes. *)

\* the timeouts load is called with
TimeoutArgs == (-1)..MaxWait

\* the seconds after which the file comes to exist
ArrivalArgs == 0..(MaxWait + 1)

InitLoad == InitWith(SmallFiles \cup {AbsentFile}) /\ NoLibrary

\* database.load(timeout)
LoadCall(timeout, arrival) ==
    /\ arrival > 0 => file.exists
    /\ LoadWith(timeout, arrival)

NextLoad == \E timeout \in TimeoutArgs, arrival \in ArrivalArgs : LoadCall(timeout, arrival)

SpecLoad == InitLoad /\ [][NextLoad]_vars

\* the message templates that have the words "not a multiple of"
MentionsNotAMultiple(fmt) ==
    fmt \in {"Database file size {len} is not a multiple of entry size {entry_size}",
             "Failed to load database: Database file size {len} is not a multiple of entry size {entry_size}"}

\* the last step was a load that found the file
LoadedFile == resp.op = "load" /\ exists_at(file, waited.arrival, waited.sleeps)

----------------------------------------------------------------------------
(* The server over its lifetime. *)

\* C21: once the database is loaded and the engine serves, no health,
\* plaintext, set parity or full set operation, returning or raising, changes
\* the records, the database size, the chunk size or the set size.
C21_QueriesChangeNothing ==
    [][pc = "serving" => UNCHANGED <<data, size, db_size, chunk_size, set_size>>]_vars

\* after two full set queries that returned and a set parity query that was
\* rejected, the records are those of the file and the sizes those of the load
C21_Witness ==
    /\ pc = "serving"
    /\ Len(seen) = 2
    /\ resp.op = "set_parity"
    /\ ~resp.returned
    /\ NumRecords = MaxRecords
    /\ size = NumRecords
    /\ db_size = NumRecords
    /\ \A i \in 1..size : data[i] = FileRecord(i - 1)

----------------------------------------------------------------------------
(* Requests served at the same time: each thread of the transport runs one
   call of the engine, a step of a call being its checks, the expansion of
   its set, the read of one entry, or its return.  The steps of the calls
   interleave in every order. *)

\* the locals kept in one place for all the calls
locals_shared(t) == threads[1]

\* the locals of the call that thread t runs: its PRSet, its list of indices
\* and the list of the entries it has read are made by the call itself
locals(t) == threads[t]

Running(u) == threads[u].at \notin {"idle", "done"}

\* thread t has taken a step to next while the calls of the others went on
Stepped(t, next) ==
    [u \in Threads |->
        IF u = t THEN next
        ELSE IF Running(u) THEN [threads[u] EXCEPT !.overlapped = TRUE]
        ELSE threads[u]]

\* the text of the logger.error of an engine operation
WhatFailed(op) ==
    CASE op = "plaintext" -> "Plaintext query failed: {e}"
      [] op = "set_parity" -> "Set parity query failed: {e}"
      [] op = "full_set" -> "Full set query failed: {e}"

\* the first checks of an operation on its argument
first_checks(op, arg) ==
    CASE op = "plaintext" -> validate_index(arg, db_size)
      [] op = "set_parity" ->
            IF Len(arg.s) = 0 THEN Raise("ValueError", "Indices list cannot be empty", <<>>)
            ELSE validate_all(arg.s).e
      [] op = "full_set" ->
            IF validate_prf_key(arg).exc # "none" THEN validate_prf_key(arg)
            ELSE PrfKey128(arg.s)

\* a thread takes a request and its call makes its first checks
Begin(t, op, arg) ==
    /\ pc = "serving"
    /\ threads[t].at = "idle"
    /\ LET e == first_checks(op, arg)
           started == [Idle EXCEPT !.op = op, !.arg = arg]
       IN  threads' = Stepped(t,
               IF e.exc # "none"
               THEN [started EXCEPT !.at = "done",
                                    !.out = Outcome(Reraised(e, WhatFailed(op), <<>>, 0))]
               ELSE IF op = "full_set"
               THEN [started EXCEPT !.at = "validated", !.prset = PRSet(arg.s)]
               ELSE [started EXCEPT !.at = "reading",
                                    !.indices = IF op = "plaintext" THEN <<arg>> ELSE arg.s])
    /\ UNCHANGED <<file, data, size, db_size, chunk_size, set_size, pc, resp, seen, waited,
                   config, prset_obj, iprf_obj, call, evals>>

\* indices = prset.expand(set_size, chunk_size) and the validation of the
\* indices
Expand(t) ==
    /\ threads[t].at = "validated"
    /\ LET expanded == expand(locals(t).prset, set_size, chunk_size)
           indices == [j \in 1..Len(expanded) |-> PyInt(expanded[j])]
           w == validate_all(indices)
       IN  threads' = Stepped(t,
               IF w.e.exc # "none"
               THEN [threads[t] EXCEPT !.at = "done",
                        !.out = Outcome(Reraised(w.e, WhatFailed(threads[t].op), <<>>, 1))]
               ELSE [threads[t] EXCEPT !.at = "reading", !.indices = indices])
    /\ UNCHANGED <<file, data, size, db_size, chunk_size, set_size, pc, resp, seen, waited,
                   config, prset_obj, iprf_obj, call, evals>>

\* self.database.get_entry(idx) for the next index of the call
Read(t) ==
    /\ threads[t].at = "reading"
    /\ Len(locals(t).values) < Len(locals(t).indices)
    /\ LET g == get_entry(locals(t).indices[Len(locals(t).values) + 1].v)
       IN  threads' = Stepped(t,
               IF g.exc # "none"
               THEN [threads[t] EXCEPT !.at = "done",
                        !.out = Outcome(Reraised(g, WhatFailed(threads[t].op), <<>>, 0))]
               ELSE [threads[t] EXCEPT !.values = Append(locals(t).values, g.value)])
    /\ UNCHANGED <<file, data, size, db_size, chunk_size, set_size, pc, resp, seen, waited,
                   config, prset_obj, iprf_obj, call, evals>>

\* the call returns the entry it read, or the compute_xor of its entries
Return(t) ==
    /\ threads[t].at = "reading"
    /\ Len(locals(t).values) >= Len(locals(t).indices)
    /\ LET value == IF threads[t].op = "plaintext" /\ locals(t).values # <<>>
                    THEN locals(t).values[1]
                    ELSE compute_xor(locals(t).values)
       IN  threads' = Stepped(t,
               [threads[t] EXCEPT !.at = "done",
                                  !.out = Outcome(Returned(value, <<>>, 0))])
    /\ UNCHANGED <<file, data, size, db_size, chunk_size, set_size, pc, resp, seen, waited,
                   config, prset_obj, iprf_obj, call, evals>>

\* the transport has sent the answer and the thread is free again
Release(t) ==
    /\ threads[t].at = "done"
    /\ threads' = [threads EXCEPT ![t] = Idle]
    /\ UNCHANGED <<file, data, size, db_size, chunk_size, set_size, pc, resp, seen, waited,
                   config, prset_obj, iprf_obj, call, evals>>

\* a file of MaxRecords records that differ in both of their low bytes
ConcFiles == {FileOf(RecordBytes(MaxRecords, 258, 513))}

ConcIndexArgs == {PyInt(i) : i \in {db_size - 1, db_size}}

ConcListArgs ==
    {<<>>, <<PyInt(0), PyInt(db_size - 1)>>, <<PyInt(0), PyInt(db_size)>>}

ConcKeyArgs ==
    {PyBytes(Rep(<<b>>, KeyBytes)) : b \in {0, 10}}
        \cup {PyBytes(Rep(<<0>>, KeyBytes - 1))}

InitConc == InitWith(ConcFiles) /\ NoLibrary

NextConc ==
    \/ Load
    \/ ServerInit
    \/ \E t \in Threads, index \in ConcIndexArgs : Begin(t, "plaintext", index)
    \/ \E t \in Threads, indices \in ConcListArgs : Begin(t, "set_parity", PyList(indices))
    \/ \E t \in Threads, prf_key \in ConcKeyArgs : Begin(t, "full_set", prf_key)
    \/ \E t \in Threads : Expand(t)
    \/ \E t \in Threads : Read(t)
    \/ \E t \in Threads : Return(t)
    \/ \E t \in Threads : Release(t)

SpecConc == InitConc /\ [][NextConc]_vars

\* what the call of thread t returns or raises when it runs with no other
Alone(t) ==
    CASE threads[t].op = "plaintext" -> plaintext_query(threads[t].arg)
      [] threads[t].op = "set_parity" -> set_parity_query(threads[t].arg.s)
      [] threads[t].op = "full_set" -> full_set_query(threads[t].arg)

\* C22: with any number of plaintext, set parity and full set requests under
\* way at the same time on one loaded engine, in every order of their steps,
\* each request comes to the value or the error it comes to when it runs
\* alone.
C22_ConcurrentAsAlone ==
    \A t \in Threads :
        threads[t].at = "done" => threads[t].out = Outcome(Alone(t))

\* two calls whose steps interleaved are both done, a full set query that
\* returned a value and a set parity query that returned another
C22_Witness ==
    \E t, u \in Threads :
        /\ threads[t].at = "done" /\ threads[u].at = "done"
        /\ threads[t].overlapped /\ threads[u].overlapped
        /\ threads[t].op = "full_set" /\ threads[u].op = "set_parity"
        /\ threads[t].out.returned /\ threads[u].out.returned
        /\ threads[t].out.value # threads[u].out.value
        /\ threads[u].out.value # 0

\* every index of the database, asked over HTTP now, is answered 200 with
\* the record of the file
ValidRequestsAnswered ==
    \A i \in 0..(NumRecords - 1) :
        LET r == plaintext_query_handler(Request("field", PyInt(i)))
        IN  /\ r.status = HTTP_OK
            /\ r.returned
            /\ r.value = FileRecord(i)

----------------------------------------------------------------------------
(* The start of the process: main of plinko_server.py with config.py. *)

\* a setting that was given a value, and one that was not given
Given(v) == [set |-> TRUE, v |-> v]
NotGiven(v) == [set |-> FALSE, v |-> v]

\* str.upper() on the names of levels that the model writes
Upper(str) ==
    CASE str = "debug" -> "DEBUG"
      [] str = "info" -> "INFO"
      [] str = "trace" -> "TRACE"
      [] OTHER -> str

\* the levels _validate accepts
valid_log_levels == {"DEBUG", "INFO", "WARNING", "ERROR", "CRITICAL"}

\* parser.parse_args(): argparse ends the process with status 2 for a
\* --log-level that is not among the choices
parse_args(flags) ==
    IF flags.log_level.set /\ flags.log_level.v \notin {"DEBUG", "INFO", "WARNING", "ERROR"}
    THEN Raise("SystemExit", "argument --log-level: invalid choice", <<2>>)
    ELSE NoExc

\* PlinkoConfig._validate
validate_config(c) ==
    IF c.port <= 0 \/ c.port > MaxPort
    THEN Raise("ConfigurationError", "Invalid port: {port}", <<c.port>>)
    ELSE IF c.database_wait_timeout < 0
    THEN Raise("ConfigurationError", "Invalid database timeout: {timeout}",
               <<c.database_wait_timeout>>)
    ELSE IF c.database_path = ""
    THEN Raise("ConfigurationError", "Database path cannot be empty", <<>>)
    ELSE IF Upper(c.log_level) \notin valid_log_levels
    THEN Raise("ConfigurationError", "Invalid log level: {log_level}", <<>>)
    ELSE NoExc

\* PlinkoConfig.__init__: the values of the environment, the defaults for
\* the variables that are not set
PlinkoConfig(env) ==
    [port |-> IF env.port.set THEN env.port.v ELSE DefaultPort,
     database_path |-> IF env.database_path.set THEN env.database_path.v
                       ELSE "data/database.bin",
     database_wait_timeout |-> IF env.database_timeout.set THEN env.database_timeout.v
                               ELSE database_wait_timeout,
     log_level |-> IF env.log_level.set THEN env.log_level.v ELSE "INFO"]

\* load_config(): the exception of _validate on the values of the environment
load_config(env) == validate_config(PlinkoConfig(env))

\* main: "Override with command line arguments": if args.port, if
\* args.database_path, if args.database_timeout is not None, if args.log_level
override(c, flags) ==
    [port |-> IF flags.port.set /\ flags.port.v # 0 THEN flags.port.v ELSE c.port,
     database_path |-> IF flags.database_path.set /\ flags.database_path.v # ""
                       THEN flags.database_path.v ELSE c.database_path,
     database_wait_timeout |-> IF flags.database_timeout.set THEN flags.database_timeout.v
                               ELSE c.database_wait_timeout,
     log_level |-> IF flags.log_level.set /\ flags.log_level.v # ""
                   THEN flags.log_level.v ELSE c.log_level]

\* app.run(host, port): the bind of the listen socket, which raises for a
\* port outside 0..65535
bind(port) ==
    IF port < 0 \/ port > MaxPort
    THEN Raise("OverflowError", "bind(): port must be 0-65535.", <<>>)
    ELSE NoExc

\* the values PLINKO_PORT, PLINKO_DATABASE_PATH, PLINKO_DATABASE_TIMEOUT and
\* PLINKO_LOG_LEVEL are given
Environments ==
    [port : {NotGiven(0), Given(0), Given(9000), Given(MaxPort + 1)},
     database_path : {NotGiven(""), Given(""), Given("env.bin")},
     database_timeout : {NotGiven(0), Given(-1), Given(30)},
     log_level : {NotGiven(""), Given("debug"), Given("TRACE")}]

\* the values --port, --database-path, --database-timeout and --log-level
\* are given
CommandLines ==
    [port : {NotGiven(0), Given(0), Given(9001), Given(MaxPort + 1)},
     database_path : {NotGiven(""), Given(""), Given("flag.bin")},
     database_timeout : {NotGiven(0), Given(-1), Given(0)},
     log_level : {NotGiven(""), Given("ERROR"), Given("TRACE")}]

\* exit(status), or the end of the process by SystemExit
Exited(c, e, status) == [c EXCEPT !.at = "exited", !.exc = e.exc, !.status = status]

\* the process at the beginning of main, with its environment and arguments
InitMain ==
    /\ InitWith({FixtureFile(1), FileOf(<<7>>), AbsentFile})
    /\ config \in {[at |-> "main", env |-> env, flags |-> flags, port |-> 0,
                     database_path |-> "", database_wait_timeout |-> 0, log_level |-> "",
                     status |-> 0, exc |-> "none"] :
                        env \in Environments, flags \in CommandLines}
    /\ prset_obj = NoObject
    /\ iprf_obj = NoIPRF
    /\ call = NoCall
    /\ evals = <<>>

MainFrame ==
    UNCHANGED <<file, data, size, db_size, chunk_size, set_size, pc, resp, seen, waited,
                threads, prset_obj, iprf_obj, call, evals>>

\* args = parser.parse_args(); config = load_config(), and the except
\* clauses of main for what these raise
LoadConfig ==
    /\ config.at = "main"
    /\ LET a == parse_args(config.flags)
           e == load_config(config.env)
           c == PlinkoConfig(config.env)
       IN  config' =
               IF a.exc # "none" THEN Exited(config, a, a.args[1])
               ELSE IF e.exc # "none" THEN Exited(config, e, 1)
               ELSE [config EXCEPT !.at = "loaded", !.port = c.port,
                        !.database_path = c.database_path,
                        !.database_wait_timeout = c.database_wait_timeout,
                        !.log_level = c.log_level]
    /\ MainFrame

\* the overrides of main and config.setup_logging()
Override ==
    /\ config.at = "loaded"
    /\ LET c == override(config, config.flags)
       IN  config' = [config EXCEPT !.at = "ready", !.port = c.port,
                         !.database_path = c.database_path,
                         !.database_wait_timeout = c.database_wait_timeout,
                         !.log_level = c.log_level]
    /\ MainFrame

\* server.load_database(config.database_wait_timeout): the load, and the
\* parameters derived from the size
MainLoad ==
    /\ config.at = "ready"
    /\ LoadWith(config.database_wait_timeout, 0)

MainInit ==
    /\ config.at = "ready"
    /\ ServerInit

\* except (ConfigurationError, DatabaseError): exit(1), after a load that
\* raised
MainExit ==
    /\ config.at = "ready"
    /\ pc = "exited"
    /\ config' = Exited(config, resp, 1)
    /\ MainFrame

\* a main that binds the listen socket without waiting for the database
Listen_before_load ==
    /\ config.at = "ready"
    /\ config' = [config EXCEPT !.at = "listening"]
    /\ MainFrame

\* app.run(host='0.0.0.0', port=config.port): the listen socket is bound, or
\* the bind raises and main's except Exception clause calls exit(1)
Listen ==
    /\ config.at = "ready"
    /\ pc = "serving"
    /\ LET e == bind(config.port)
       IN  config' = IF e.exc # "none" THEN Exited(config, e, 1)
                     ELSE [config EXCEPT !.at = "listening"]
    /\ MainFrame

\* a request that arrives at the listen socket
Serve ==
    /\ config.at = "listening"
    /\ HealthRequest

NextMain ==
    \/ LoadConfig
    \/ Override
    \/ MainLoad
    \/ MainInit
    \/ MainExit
    \/ Listen
    \/ Serve

SpecMain == InitMain /\ [][NextMain]_vars

\* what the specification calls valid, setting by setting
ValidPort(v) == v >= 1 /\ v <= MaxPort
ValidPath(v) == v # ""
ValidTimeout(v) == v >= 0
ValidLevel(v) == Upper(v) \in valid_log_levels

\* a value that is given, by the environment or by a flag, is invalid
InvalidGiven(from) ==
    \/ from.port.set /\ ~ValidPort(from.port.v)
    \/ from.database_path.set /\ ~ValidPath(from.database_path.v)
    \/ from.database_timeout.set /\ ~ValidTimeout(from.database_timeout.v)
    \/ from.log_level.set /\ ~ValidLevel(from.log_level.v)

\* C24 An invalid configuration (a port outside 1..65535, an invalid log
\* level, an empty database path, a negative database timeout), given by an
\* environment variable or by a flag, ends the process with a non-zero
\* status before the listen socket is bound: the process never listens, and
\* when it has exited its status is not 0.
C24_InvalidConfigurationNeverListens ==
    (InvalidGiven(config.env) \/ InvalidGiven(config.flags)) =>
        /\ config.at # "listening"
        /\ config.at = "exited" => config.status # 0

\* the value the specification gives a setting: the flag's, else the
\* environment's, else the default
Preferred(flag, env, default) ==
    IF flag.set THEN flag.v ELSE IF env.set THEN env.v ELSE default

PreferredConfig ==
    [port |-> Preferred(config.flags.port, config.env.port, DefaultPort),
     database_path |-> Preferred(config.flags.database_path, config.env.database_path,
                                 "data/database.bin"),
     database_wait_timeout |-> Preferred(config.flags.database_timeout,
                                         config.env.database_timeout,
                                         database_wait_timeout),
     log_level |-> Preferred(config.flags.log_level, config.env.log_level, "INFO")]

PreferredValid ==
    /\ ValidPort(PreferredConfig.port)
    /\ ValidPath(PreferredConfig.database_path)
    /\ ValidTimeout(PreferredConfig.database_wait_timeout)
    /\ ValidLevel(PreferredConfig.log_level)

\* C25 For each of the four settings the flag's value is used when both the
\* environment variable and the flag are given, the environment's when only
\* it is given, and the default (8080, data/database.bin, 60, INFO) when
\* neither is; and the start proceeds whenever the values so chosen are
\* valid: the process does not end on a configuration error.
C25_FlagsOverEnvironmentOverDefaults ==
    /\ config.at \in {"ready", "listening"} =>
          /\ config.port = PreferredConfig.port
          /\ config.database_path = PreferredConfig.database_path
          /\ config.database_wait_timeout = PreferredConfig.database_wait_timeout
          /\ config.log_level = PreferredConfig.log_level
    /\ PreferredValid =>
          ~(config.at = "exited" /\ config.exc \in {"ConfigurationError", "SystemExit"})

\* the database file is missing, or its size is not a multiple of 8
DatabaseFault == ~file.exists \/ (Len(file.bytes) % entry_size) # 0

----------------------------------------------------------------------------
(* _wait_for_database round by round: one round of its loop is one step, and
   a second passes in each time.sleep(1). *)

\* a wait that goes one round beyond its timeout
timed_out_late(elapsed, timeout) == elapsed > timeout

\* time.time() - start_time >= timeout
timed_out(elapsed, timeout) == elapsed >= timeout

WaitFrame ==
    UNCHANGED <<file, data, size, db_size, chunk_size, set_size, seen, threads, config,
                prset_obj, iprf_obj, call, evals>>

\* what _wait_for_database ends with: e is NoExc when it returns
WaitAnswer(e) ==
    [NoAnswer EXCEPT !.layer = "startup", !.op = "wait", !.exc = e.exc, !.fmt = e.fmt,
                     !.returned = (e.exc = "none")]

\* _wait_for_database(timeout) is entered: its one check when timeout <= 0,
\* start_time = time.time() otherwise
WaitBegin(timeout, arrival) ==
    /\ pc = "start"
    /\ arrival > 0 => file.exists
    /\ IF timeout <= 0
       THEN /\ waited' = [timeout |-> timeout, arrival |-> arrival, checks |-> 1,
                          sleeps |-> 0]
            /\ pc' = IF exists_at(file, arrival, 0) THEN "found" ELSE "exited"
            /\ resp' = IF exists_at(file, arrival, 0) THEN WaitAnswer(NoExc)
                       ELSE WaitAnswer(Raise("DatabaseError", "Database file {db_path} not found", <<>>))
       ELSE /\ waited' = [timeout |-> timeout, arrival |-> arrival, checks |-> 0,
                          sleeps |-> 0]
            /\ pc' = "polling"
            /\ resp' = NoAnswer
    /\ WaitFrame

\* one round of the while loop: os.path.exists, the test of the elapsed time,
\* time.sleep(1)
PollRound ==
    /\ pc = "polling"
    /\ IF exists_at(file, waited.arrival, waited.sleeps)
       THEN /\ waited' = [waited EXCEPT !.checks = @ + 1]
            /\ pc' = "found"
            /\ resp' = WaitAnswer(NoExc)
       ELSE IF timed_out(waited.sleeps, waited.timeout)
       THEN /\ waited' = [waited EXCEPT !.checks = @ + 1]
            /\ pc' = "exited"
            /\ resp' = WaitAnswer(Raise("DatabaseError",
                                        "Timeout waiting for database file at {db_path}", <<>>))
       ELSE /\ waited' = [waited EXCEPT !.checks = @ + 1, !.sleeps = @ + 1]
            /\ pc' = "polling"
            /\ resp' = resp
    /\ WaitFrame

NextWait ==
    \/ \E timeout \in TimeoutArgs, arrival \in ArrivalArgs : WaitBegin(timeout, arrival)
    \/ PollRound

\* the loop is the only thing its thread does, and sleep(1) returns
SpecWait == InitLoad /\ [][NextWait]_vars /\ WF_vars(PollRound)

\* the wait has ended, by return or by DatabaseError
WaitEnded == pc \in {"found", "exited"}

\* at every moment of a wait with a timeout above 0
PollsOncePerSecond ==
    (pc # "start" /\ waited.timeout > 0) =>
        /\ waited.checks = waited.sleeps + (IF WaitEnded THEN 1 ELSE 0)
        /\ waited.sleeps <= waited.timeout
        /\ \A e \in 0..(waited.sleeps - 1) : ~exists_at(file, waited.arrival, e)
        /\ pc = "found" => exists_at(file, waited.arrival, waited.sleeps)
        /\ pc = "exited" =>
              /\ resp.exc = "DatabaseError"
              /\ resp.fmt = "Timeout waiting for database file at {db_path}"
              /\ waited.sleeps = waited.timeout
              /\ ~exists_at(file, waited.arrival, waited.sleeps)
        /\ WaitEnded =>
              LET w == wait_for_database(file, waited.timeout, waited.arrival)
              IN  /\ w.exc = resp.exc
                  /\ w.checks = waited.checks
                  /\ w.sleeps = waited.sleeps

\* C27 A load with a timeout T above 0 polls for the file once a second and
\* always ends: it returns at the first poll that finds the file, and when
\* the file does not come it raises DatabaseError at the first poll at which
\* T seconds have passed, not before, and it does not poll forever.
C27_WaitEndsAtTimeout ==
    /\ []PollsOncePerSecond
    /\ (pc = "polling") ~> WaitEnded

\* the file came a second after the longest timeout: the wait raised
C27_Witness ==
    /\ pc = "exited"
    /\ file.exists
    /\ waited.timeout = MaxWait
    /\ waited.arrival > MaxWait
    /\ waited.sleeps = MaxWait
    /\ waited.checks = MaxWait + 1

----------------------------------------------------------------------------
(* The records a full set query reads. *)

\* the last step answered a full set query with a key of 16 bytes on a
\* database that has records
AnsweredSetOfKey ==
    /\ AnsweredKey
    /\ Len(AskedKey) = KeyBytes
    /\ db_size >= 1

\* the records beyond the last whole chunk
Trailing == (set_size * chunk_size)..(db_size - 1)

\* C28 On a database of n >= 1 records, a full set query with a key of 16
\* bytes reads exactly setSize records, the j-th of them in the chunk
\* [j*chunkSize, (j+1)*chunkSize), and none at setSize*chunkSize or beyond:
\* the records behind the last whole chunk are never read, and there are
\* n mod (setSize*chunkSize) of them.
C28_FullSetReadsOnePerChunk ==
    AnsweredSetOfKey =>
        /\ Len(resp.reads) = set_size
        /\ \A j \in 1..Len(resp.reads) :
              /\ resp.reads[j] >= (j - 1) * chunk_size
              /\ resp.reads[j] < j * chunk_size
              /\ resp.reads[j] < set_size * chunk_size
              /\ resp.reads[j] \notin Trailing
        /\ Cardinality(Trailing) = db_size % (set_size * chunk_size)

\* a full set query read 1024 records of the database of 3074 records, whose
\* last two records are in no chunk
C28_Witness ==
    /\ AnsweredSetOfKey
    /\ chunk_size = 3
    /\ Len(resp.reads) = ChunkDivisor
    /\ Cardinality(Trailing) = 2
    /\ \E j \in 1..Len(resp.reads) : resp.reads[j] % chunk_size # 0

----------------------------------------------------------------------------
(* A database object that is loaded again and again, while the file of its
   path is written anew, truncated or removed between the loads. *)

\* database.load(timeout) on the object as it is, the file being f
Reload(f, timeout, arrival) ==
    /\ arrival > 0 => f.exists
    /\ file' = f
    /\ LET r == load(f, size, data, timeout, arrival)
       IN  /\ size' = r.size
           /\ data' = r.data
           /\ waited' = [timeout |-> timeout, arrival |-> arrival, checks |-> r.checks,
                          sleeps |-> r.sleeps]
           /\ pc' = IF r.exc = "none" THEN "loaded" ELSE "failed"
           /\ resp' = [NoAnswer EXCEPT !.layer = "startup", !.op = "load",
                                       !.exc = r.exc, !.fmt = r.fmt, !.args = r.args,
                                       !.returned = (r.exc = "none")]
    /\ UNCHANGED <<db_size, chunk_size, set_size, seen, threads, config, prset_obj,
                   iprf_obj, call, evals>>

NextReload ==
    \E f \in SmallFiles \cup {AbsentFile}, timeout \in {0, MaxWait}, arrival \in {0, MaxWait + 1} :
        Reload(f, timeout, arrival)

SpecReload == InitLoad /\ [][NextReload]_vars

\* the step is a load that raised
LoadFailed == resp'.op = "load" /\ ~resp'.returned

\* C30 A load that fails (the file absent, the wait timed out, a length that
\* is not a multiple of 8) leaves size and data exactly as they were before
\* the call, 0 and empty on a fresh object; and after every load, failed or
\* not, the number of stored records equals size.
C30_FailedLoadChangesNothing ==
    /\ [][LoadFailed => (size' = size /\ data' = data)]_vars
    /\ [](Len(data) = size)

\* a loaded object kept its records through a load of a file of another
\* length that is not a multiple of 8
C30_Witness ==
    /\ pc = "failed"
    /\ resp.exc = "DatabaseError"
    /\ file.exists
    /\ Len(file.bytes) % entry_size # 0
    /\ size = MaxRecords
    /\ Len(data) = MaxRecords
    /\ Len(file.bytes) \div entry_size # size

============================================================================
